---- MODULE Spec2Model ----
(***************************************************************************)
(* Decision engine of th8-dcc-backend-v2: rule evaluation, contract        *)
(* compliance, recommendation (app/services/decision_engine.py) and the    *)
(* risk derivation of app/api/decisions.py.                                *)
(***************************************************************************)
EXTENDS Integers, Sequences, FiniteSets, TLC

VARIABLES
    policy,        \* the policy document passed to the engine
    inputs,        \* the inputs map passed to the engine
    pc,            \* position of the run: the node or step to execute next
    ctx,           \* DecisionContext: rule_results, recommendation, _hit_rules
    result,        \* what DecisionEngine.evaluate returned to its caller
    risk_drivers,  \* collect_risk_drivers(...)
    base_risk,     \* derive_risk_from_drivers(...)
    new_risk,      \* apply_threshold_safety_net(...)
    returned,      \* one entry per finished call, in call order
    cmp,           \* the comparator call: [actual, operator, expected, out]
    case_id,       \* case["case_id"] of the case the run evaluates
    run_id,        \* run_id of execute_decision_run; 0 before the first run
    uuids,         \* how many values uuid.uuid4() has handed out
    audit,         \* the audit_events table: events in the order written
    cases,         \* the cases table: case_id -> the record last saved
    parked,        \* the locals of the concurrent run that is not executing
    derived        \* DecisionStatusService.derive: its events and its locals

vars == <<policy, inputs, pc, ctx, result, risk_drivers, base_risk, new_risk,
          returned, cmp, case_id, run_id, uuids, audit, cases, parked, derived>>

\* What AuditService and the run's identity keep.
auditVars == <<case_id, run_id, uuids, audit>>

(***************************************************************************)
(* Values.  A Python value is a record [t, n, s, l]: t is the type tag,    *)
(* n the number, s the string (a sequence of character codes) and l the    *)
(* list (a sequence of scalar values).                                     *)
(***************************************************************************)
None == [t |-> "none", n |-> 0, s |-> <<>>, l |-> <<>>]

Num(x) == [t |-> "num", n |-> x, s |-> <<>>, l |-> <<>>]

Str(cs) == [t |-> "str", n |-> 0, s |-> cs, l |-> <<>>]

List(xs) == [t |-> "list", n |-> 0, s |-> <<>>, l |-> xs]

\* The strings of the model, as character codes: "A", "AB", "B".
ACTIVE == Str(<<1>>)

ACTIVE_B == Str(<<1, 2>>)

BLACKLISTED == Str(<<2>>)

Min2(a, b) == IF a <= b THEN a ELSE b

\* First index at which the sequences a and b differ by equality, 0 if none
\* within the shorter one.
FirstDiff(a, b) ==
    LET m == Min2(Len(a), Len(b))
        D == {i \in 1..m : a[i] # b[i]}
    IN IF D = {} THEN 0 ELSE CHOOSE i \in D : \A j \in D : i <= j

\* Three-way comparison of two integers.
IntCmp(x, y) == IF x < y THEN "lt" ELSE IF x > y THEN "gt" ELSE "eq"

\* Lexicographic comparison of two strings (sequences of character codes).
StrCmp(a, b) ==
    LET i == FirstDiff(a, b)
    IN IF i = 0 THEN IntCmp(Len(a), Len(b)) ELSE IntCmp(a[i], b[i])

\* Python's ordering of two scalars: "lt", "eq", "gt", or "TypeError" when
\* the types do not order against each other.
ScalarCmp(a, b) ==
    IF a.t = "num" /\ b.t = "num" THEN IntCmp(a.n, b.n)
    ELSE IF a.t = "str" /\ b.t = "str" THEN StrCmp(a.s, b.s)
    ELSE "TypeError"

\* Python's ordering of two values; lists order lexicographically by their
\* first differing elements.
PyCmp(a, b) ==
    IF a.t = "list" /\ b.t = "list"
    THEN LET i == FirstDiff(a.l, b.l)
         IN IF i = 0 THEN IntCmp(Len(a.l), Len(b.l))
            ELSE ScalarCmp(a.l[i], b.l[i])
    ELSE IF a.t = "list" \/ b.t = "list" THEN "TypeError"
    ELSE ScalarCmp(a, b)

\* a is a contiguous substring of b.
IsSubstring(a, b) ==
    \E i \in 0..Len(b) :
        /\ i + Len(a) <= Len(b)
        /\ \A j \in 1..Len(a) : b[i + j] = a[j]

\* Python's `x in c`: "True", "False" or "TypeError".
PyIn(x, c) ==
    IF c.t = "list"
    THEN IF \E i \in 1..Len(c.l) : c.l[i] = x THEN "True" ELSE "False"
    ELSE IF c.t = "str"
    THEN IF x.t = "str"
         THEN IF IsSubstring(x.s, c.s) THEN "True" ELSE "False"
         ELSE "TypeError"
    ELSE "TypeError"

PyBool(b) == IF b THEN "True" ELSE "False"

PyNot(r) == IF r = "TypeError" THEN r ELSE PyBool(r = "False")

\* The nine operators _safe_compare knows.
Operators == {">", ">=", "<", "<=", "==", "!=", "in", "not_in", "contains"}

\* The body of the try block of _safe_compare: the outcome of the operator,
\* "TypeError" if Python raises it, "NoOp" for an operator none of the ifs
\* matches.
PyOperator(actual, operator, expected) ==
    LET c == PyCmp(actual, expected)
    IN CASE operator = ">"  -> IF c = "TypeError" THEN c ELSE PyBool(c = "gt")
         [] operator = ">=" -> IF c = "TypeError" THEN c ELSE PyBool(c \in {"gt", "eq"})
         [] operator = "<"  -> IF c = "TypeError" THEN c ELSE PyBool(c = "lt")
         [] operator = "<=" -> IF c = "TypeError" THEN c ELSE PyBool(c \in {"lt", "eq"})
         [] operator = "==" -> PyBool(actual = expected)
         [] operator = "!=" -> PyBool(actual # expected)
         [] operator = "in" -> PyIn(actual, expected)
         [] operator = "not_in" -> PyNot(PyIn(actual, expected))
         [] operator = "contains" -> PyIn(expected, actual)
         [] OTHER -> "NoOp"

\* _safe_compare without the guard on a None actual.
SafeCompare_NoNoneGuard(actual, operator, expected) ==
    PyOperator(actual, operator, expected) = "True"

\* _safe_compare: False for None, the operator's outcome otherwise, False on
\* TypeError and for an unknown operator.
SafeCompare(actual, operator, expected) ==
    IF actual = None THEN FALSE
    ELSE PyOperator(actual, operator, expected) = "True"

(***************************************************************************)
(* Policy and inputs.                                                      *)
(*   rule:   [id, type, is_active, has_description, when, then,            *)
(*            risk_impact]; type "" is an unset type, then "" an absent    *)
(*            then.decision, risk_impact "" an absent risk_impact.         *)
(*   cond:   [field, operator, value]                                      *)
(*   policy: [rules, contract_compliance, thresholds, config, authority]   *)
(*   inputs: [fields, contract, line_items]; fields maps the scalar input  *)
(*            keys to their values, a key outside its domain is missing.   *)
(***************************************************************************)
Cond(f, op, v) == [field |-> f, operator |-> op, value |-> v]

Rule(id, type, active, when, then, impact) ==
    [id |-> id, type |-> type, is_active |-> active, has_description |-> TRUE,
     when |-> when, then |-> then, risk_impact |-> impact]

\* inputs.get(field)
InputGet(inp, field) ==
    IF field \in DOMAIN inp.fields THEN inp.fields[field] ELSE None

\* Python truthiness of a value.
Truthy(v) ==
    CASE v.t = "none" -> FALSE
      [] v.t = "num" -> v.n # 0
      [] v.t = "str" -> v.s # <<>>
      [] v.t = "list" -> v.l # <<>>

(***************************************************************************)
(* Node 1: EvaluateRulesNode.                                              *)
(***************************************************************************)
\* Mutant of CondStep: the last condition decides the hit (`hit = ok`).
CondStep_LastDecides(acc, cond, actual, ok) ==
    IF ok
    THEN [hit |-> TRUE,
          matched |-> Append(acc.matched,
                             [field |-> cond.field, operator |-> cond.operator,
                              expected |-> cond.value, actual |-> actual])]
    ELSE [hit |-> FALSE, matched |-> acc.matched]

\* One pass of the loop over rule["when"]: a true condition is appended to
\* matched, a false one clears hit.
CondStep(acc, cond, actual, ok) ==
    IF ok
    THEN [hit |-> acc.hit,
          matched |-> Append(acc.matched,
                             [field |-> cond.field, operator |-> cond.operator,
                              expected |-> cond.value, actual |-> actual])]
    ELSE [hit |-> FALSE, matched |-> acc.matched]

RECURSIVE WhenLoop(_, _, _, _)
WhenLoop(conds, inp, i, acc) ==
    IF i > Len(conds) THEN acc
    ELSE LET cond == conds[i]
             actual == InputGet(inp, cond.field)
             ok == SafeCompare(actual, cond.operator, cond.value)
         IN WhenLoop(conds, inp, i + 1, CondStep(acc, cond, actual, ok))

\* The rules the deterministic evaluator does not skip.
Participates(rule) ==
    /\ rule.is_active # FALSE
    /\ rule.type \notin {"llm_semantic_check", "contract_check"}

\* The rule result appended for one participating rule.
RuleResult(rule, inp) ==
    LET r == WhenLoop(rule.when, inp, 1, [hit |-> TRUE, matched |-> <<>>])
    IN [rule_id |-> rule.id, hit |-> r.hit,
        matched |-> IF r.hit THEN r.matched ELSE <<>>]

RECURSIVE RulesLoop(_, _, _, _)
RulesLoop(rules, inp, i, acc) ==
    IF i > Len(rules) THEN acc
    ELSE IF ~Participates(rules[i]) THEN RulesLoop(rules, inp, i + 1, acc)
    ELSE LET rr == RuleResult(rules[i], inp)
         IN RulesLoop(rules, inp, i + 1,
                [rule_results |-> Append(acc.rule_results, rr),
                 hit_rules |-> IF rr.hit THEN Append(acc.hit_rules, rr.rule_id)
                               ELSE acc.hit_rules])

\* EvaluateRulesNode.run: the context it returns.
EvaluateRulesNode(c, pol, inp) ==
    LET r == RulesLoop(pol.rules, inp, 1, [rule_results |-> <<>>, hit_rules |-> <<>>])
    IN [c EXCEPT !.rule_results = r.rule_results, !._hit_rules = r.hit_rules]

(***************************************************************************)
(* Node 2: EvaluateLLMNode.                                                *)
(***************************************************************************)
\* Mutant of LLMResponse: the verdict depends on whether an earlier call
\* has finished (a verdict kept across calls).
LLMResponse_Stateful(rule, inp) == [violation |-> returned # <<>>]

\* The mock semantic verdict of the node (a constant).
LLMResponse(rule, inp) == [violation |-> FALSE]

\* The rule result appended for one semantic rule; True and False are the
\* numbers 1 and 0.
SemanticResult(rule, inp) ==
    LET hit == LLMResponse(rule, inp).violation
    IN [rule_id |-> rule.id, hit |-> hit,
        matched |-> <<[field |-> "llm_semantic_check", operator |-> "violation",
                       expected |-> Num(1), actual |-> Num(IF hit THEN 1 ELSE 0)]>>]

\* The loop over the semantic rules: acc is [raised, rule_results,
\* hit_rules]; rule["description"] raises KeyError when the key is missing.
RECURSIVE LLMLoop(_, _, _, _)
LLMLoop(rules, inp, i, acc) ==
    IF i > Len(rules) THEN acc
    ELSE IF rules[i].type # "llm_semantic_check" THEN LLMLoop(rules, inp, i + 1, acc)
    ELSE IF ~rules[i].has_description THEN [acc EXCEPT !.raised = "KeyError"]
    ELSE LET rr == SemanticResult(rules[i], inp)
         IN LLMLoop(rules, inp, i + 1,
                [acc EXCEPT !.rule_results = Append(@, rr),
                            !.hit_rules = IF rr.hit THEN Append(@, rr.rule_id) ELSE @])

\* EvaluateLLMNode.run: [raised, ctx].  The appends before a raise stay in
\* the context.
EvaluateLLMNode(c, pol, inp) ==
    LET r == LLMLoop(pol.rules, inp, 1,
                     [raised |-> "", rule_results |-> c.rule_results,
                      hit_rules |-> c._hit_rules])
    IN [raised |-> r.raised,
        ctx |-> [c EXCEPT !.rule_results = r.rule_results, !._hit_rules = r.hit_rules]]

(***************************************************************************)
(* Node 2.5: EvaluateContractNode.                                         *)
(*   contract_data: [kind, keys, doc_id, is_active, contract_items]; kind  *)
(*     "none" is None, "dict" a dict with the keys in `keys`;              *)
(*     contract_items maps a SKU to its item data [price |-> value].       *)
(*   line item: [sku, keys, unit_price]                                    *)
(***************************************************************************)
NoContract == [kind |-> "none", keys |-> {}, doc_id |-> None, is_active |-> TRUE,
               contract_items |-> <<>>]

\* contract_data.get("doc_id")
DocId(cd) == IF "doc_id" \in cd.keys THEN cd.doc_id ELSE None

\* Mutant of NoContractReference: only a missing contract object counts,
\* the doc_id test is dropped.
NoContractReference_ObjectOnly(cd) == cd.kind = "none" \/ cd.keys = {}

\* `not contract_data or not contract_data.get("doc_id")`
NoContractReference(cd) ==
    cd.kind = "none" \/ cd.keys = {} \/ ~Truthy(DocId(cd))

\* contract_data.get("is_active", True)
ContractIsActive(cd) == IF "is_active" \in cd.keys THEN cd.is_active ELSE TRUE

NoContractResult(inp) ==
    [rule_id |-> "NO_CONTRACT_REFERENCE", hit |-> TRUE, severity |-> "HIGH",
     matched |-> <<[field |-> "contract_id", operator |-> "exists",
                    expected |-> "Valid Contract", actual |-> "None/Missing"]>>,
     inputs_snapshot |-> [vendor_id |-> InputGet(inp, "vendor_id"),
                          po_items_count |-> Len(inp.line_items)]]

ContractExpiredResult(cd) ==
    [rule_id |-> "CONTRACT_EXPIRED", hit |-> TRUE, severity |-> "CRITICAL",
     doc_reference |-> DocId(cd),
     matched |-> <<[field |-> "contract_status", operator |-> "is_active",
                    expected |-> "ACTIVE", actual |-> "EXPIRED/INACTIVE"]>>]

\* float(item.get("unit_price", 0)): [raised, n].  The strings of the model
\* are letters, so float() of one raises ValueError.
UnitPriceFloat(item) ==
    LET v == IF "unit_price" \in item.keys THEN item.unit_price ELSE Num(0)
    IN CASE v.t = "num" -> [raised |-> "", n |-> v.n]
         [] v.t = "str" -> [raised |-> "ValueError", n |-> 0]
         [] OTHER -> [raised |-> "TypeError", n |-> 0]

NoItemData == [present |-> FALSE, price |-> None]

\* contract_data["contract_items"].get(sku), given that the key exists.
ItemDataGet(cd, sku) ==
    IF sku \in DOMAIN cd.contract_items
    THEN [present |-> TRUE, price |-> cd.contract_items[sku].price]
    ELSE NoItemData

\* The local variables before the loop over line_items: none is bound.
NoLocals == [raised |-> "", bound |-> FALSE, sku |-> "", po_price |-> 0,
             item_data |-> NoItemData]

\* The loop over line_items (lines 215-221): each pass rebinds sku, po_price
\* and item_data; the locals of the last pass outlive the loop.
RECURSIVE ItemLoop(_, _, _, _)
ItemLoop(items, cd, i, loc) ==
    IF i > Len(items) THEN loc
    ELSE LET f == UnitPriceFloat(items[i])
         IN IF f.raised # "" THEN [loc EXCEPT !.raised = f.raised]
            ELSE IF "contract_items" \notin cd.keys
            THEN [loc EXCEPT !.raised = "KeyError"]
            ELSE ItemLoop(items, cd, i + 1,
                     [raised |-> "", bound |-> TRUE, sku |-> items[i].sku,
                      po_price |-> f.n,
                      item_data |-> ItemDataGet(cd, items[i].sku)])

\* diff_percent > max_variance with diff_percent = (po - cp) / cp * 100 and
\* cp > 0, in exact arithmetic.
ExceedsVariance(po_price, contract_price, max_variance) ==
    (po_price - contract_price) * 100 > max_variance * contract_price

\* round(diff_percent, 2), in hundredths of a percent.
VariancePct(po_price, contract_price) ==
    (2 * (po_price - contract_price) * 10000 + contract_price)
        \div (2 * contract_price)

PriceField(sku) == <<"price_", sku>>

\* The variance entry appended for the item the locals hold.
VarianceHit(loc, max_variance) ==
    [field |-> PriceField(loc.sku), operator |-> <<"variance > ", max_variance, "%">>,
     expected |-> loc.item_data.price.n, actual |-> loc.po_price,
     variance_pct |-> VariancePct(loc.po_price, loc.item_data.price.n)]

\* Lines 223-255, run once after the loop on the locals it left: [raised,
\* variance_hits, snapshot_items].
AfterItemLoop(loc, max_variance) ==
    LET none == [raised |-> "", variance_hits |-> <<>>, snapshot_items |-> {}]
    IN IF ~loc.bound THEN [none EXCEPT !.raised = "UnboundLocalError"]
       ELSE IF ~loc.item_data.present THEN none
       ELSE LET cp == loc.item_data.price
            IN IF cp # None /\ cp.n > 0 /\ ExceedsVariance(loc.po_price, cp.n, max_variance)
               THEN [raised |-> "",
                     variance_hits |-> <<VarianceHit(loc, max_variance)>>,
                     snapshot_items |->
                        {[sku |-> loc.sku, po_price |-> loc.po_price,
                          contract_price |-> cp.n]}]
               ELSE none

PriceVarianceResult(cd, max_variance, v) ==
    [rule_id |-> "CONTRACT_PRICE_VARIANCE", hit |-> TRUE, severity |-> "CRITICAL",
     doc_reference |-> DocId(cd), matched |-> v.variance_hits,
     inputs_snapshot |-> [doc_id |-> DocId(cd), max_variance_allowed |-> max_variance,
                          failed_items |-> v.snapshot_items]]

\* Mutant of AppendHit: the result is appended, _hit_rules is left alone.
AppendHit_ResultOnly(c, rr) == [c EXCEPT !.rule_results = Append(@, rr)]

\* Append a hit result to the context.
AppendHit(c, rr) ==
    [c EXCEPT !.rule_results = Append(@, rr), !._hit_rules = Append(@, rr.rule_id)]

\* Check 2 (price variance) on the context c: [raised, ctx].
PriceCheck(c, cc, cd, items) ==
    LET loc == ItemLoop(items, cd, 1, NoLocals)
    IN IF loc.raised # "" THEN [raised |-> loc.raised, ctx |-> c]
       ELSE LET v == AfterItemLoop(loc, cc.max_allowed_variance_pct)
            IN IF v.raised # "" THEN [raised |-> v.raised, ctx |-> c]
               ELSE IF v.variance_hits # <<>>
               THEN [raised |-> "",
                     ctx |-> AppendHit(c, PriceVarianceResult(cd, cc.max_allowed_variance_pct, v))]
               ELSE [raised |-> "", ctx |-> c]

\* EvaluateContractNode.run: [raised, ctx].
EvaluateContractNode(c, pol, inp) ==
    LET cc == pol.contract_compliance
        cd == inp.contract
    IN IF NoContractReference(cd)
       THEN [raised |-> "", ctx |-> AppendHit(c, NoContractResult(inp))]
       ELSE LET c1 == IF cc.validity_check /\ ~ContractIsActive(cd)
                      THEN AppendHit(c, ContractExpiredResult(cd))
                      ELSE c
            IN IF cc.price_check THEN PriceCheck(c1, cc, cd, inp.line_items)
               ELSE [raised |-> "", ctx |-> c1]

(***************************************************************************)
(* Node 3: RecommendDecisionNode.                                          *)
(***************************************************************************)
\* The part of a rule id up to and including its first underscore, which
\* decides rid.startswith(p) for the one-word prefixes the node tests.
IdPrefix(rid) ==
    CASE rid \in {"HIGH_AMOUNT_ESCALATION", "HIGH_VALUE_REVIEW"} -> "HIGH_"
      [] rid = "VENDOR_BLACKLIST_CHECK" -> "VENDOR_"
      [] rid = "BUDGET_EXCEEDED" -> "BUDGET_"
      [] rid = "POTENTIAL_SPLIT_PO" -> "POTENTIAL_"
      [] rid = "SLA_BREACH" -> "SLA_"
      [] rid \in {"CONTRACT_PRICE_VARIANCE", "CONTRACT_EXPIRED"} -> "CONTRACT_"
      [] rid = "NO_CONTRACT_REFERENCE" -> "NO_"
      [] OTHER -> ""

\* 1) rule id -> then.decision, a later rule of the same id overriding.
RECURSIVE RuleDecisionMap(_, _)
RuleDecisionMap(rules, i) ==
    IF i = 0 THEN <<>>
    ELSE IF rules[i].id # "" /\ rules[i].then # ""
         THEN (rules[i].id :> rules[i].then) @@ RuleDecisionMap(rules, i - 1)
         ELSE RuleDecisionMap(rules, i - 1)

\* Mutant of HitDecision: the id prefix is tried before the policy's map.
HitDecision_PrefixFirst(rid, map) ==
    IF IdPrefix(rid) \in {"VENDOR_", "BUDGET_"} THEN <<"REJECT">>
    ELSE IF IdPrefix(rid) \in {"HIGH_", "POTENTIAL_"} THEN <<"ESCALATE">>
    ELSE IF IdPrefix(rid) \in {"SLA_"} THEN <<"REVIEW">>
    ELSE IF rid \in DOMAIN map THEN <<map[rid]>>
    ELSE <<>>

\* 2) the decisions one hit rule contributes: the policy's, else by prefix.
HitDecision(rid, map) ==
    IF rid \in DOMAIN map THEN <<map[rid]>>
    ELSE IF IdPrefix(rid) \in {"VENDOR_", "BUDGET_"} THEN <<"REJECT">>
    ELSE IF IdPrefix(rid) \in {"HIGH_", "POTENTIAL_"} THEN <<"ESCALATE">>
    ELSE IF IdPrefix(rid) \in {"SLA_"} THEN <<"REVIEW">>
    ELSE <<>>

RECURSIVE HitDecisions(_, _, _)
HitDecisions(hit_rules, map, i) ==
    IF i > Len(hit_rules) THEN <<>>
    ELSE HitDecision(hit_rules[i], map) \o HitDecisions(hit_rules, map, i + 1)

InSeq(x, seq) == \E i \in 1..Len(seq) : seq[i] = x

\* Mutant of DecisionPriority: ESCALATE is tested before REJECT.
DecisionPriority_EscalateFirst(hit_decisions) ==
    IF InSeq("ESCALATE", hit_decisions) THEN "ESCALATE"
    ELSE IF InSeq("REJECT", hit_decisions) THEN "REJECT"
    ELSE IF InSeq("REVIEW", hit_decisions) THEN "REVIEW"
    ELSE "APPROVE"

\* 3) REJECT > ESCALATE > REVIEW > APPROVE
DecisionPriority(hit_decisions) ==
    IF InSeq("REJECT", hit_decisions) THEN "REJECT"
    ELSE IF InSeq("ESCALATE", hit_decisions) THEN "ESCALATE"
    ELSE IF InSeq("REVIEW", hit_decisions) THEN "REVIEW"
    ELSE "APPROVE"

\* One authority rule: "raise" with the exception, "skip" (continue) or
\* "match".  rule: [keys, condition, required_role]; condition is the list
\* of the whitespace-separated tokens, the value token a number or a text.
AuthorityStep(rule, inp) ==
    IF "condition" \notin rule.keys \/ "required_role" \notin rule.keys
    THEN [kind |-> "raise", exc |-> "KeyError"]
    ELSE IF Len(rule.condition) # 3 THEN [kind |-> "raise", exc |-> "ValueError"]
    ELSE LET actual == InputGet(inp, rule.condition[1])
             value == rule.condition[3]
         IN IF actual = None THEN [kind |-> "skip", exc |-> ""]
            ELSE IF value.t # "num" THEN [kind |-> "skip", exc |-> ""]
            ELSE IF SafeCompare(actual, rule.condition[2], value)
                 THEN [kind |-> "match", exc |-> ""]
                 ELSE [kind |-> "skip", exc |-> ""]

\* Mutant of DeriveRequiredRole: the last matching rule gives the role.
DeriveRequiredRole_LastMatch(rules, inp, i) ==
    LET M == {k \in i..Len(rules) : AuthorityStep(rules[k], inp).kind = "match"}
    IN IF M = {} THEN [raised |-> "", role |-> "Procurement_Manager"]
       ELSE [raised |-> "",
             role |-> rules[CHOOSE k \in M : \A m \in M : m <= k].required_role]

\* _derive_required_role: [raised, role]
RECURSIVE DeriveRequiredRole(_, _, _)
DeriveRequiredRole(rules, inp, i) ==
    IF i > Len(rules) THEN [raised |-> "", role |-> "Procurement_Manager"]
    ELSE LET st == AuthorityStep(rules[i], inp)
         IN CASE st.kind = "raise" -> [raised |-> st.exc, role |-> ""]
              [] st.kind = "match" -> [raised |-> "", role |-> rules[i].required_role]
              [] OTHER -> DeriveRequiredRole(rules, inp, i + 1)

\* 5) risk_factors
RiskFactors(decision) ==
    (IF decision = "ESCALATE" THEN <<"RULE_ESCALATION">> ELSE <<>>)
    \o (IF decision = "REJECT" THEN <<"RULE_REJECTION">> ELSE <<>>)

NoRecommendation == [decision |-> "", required_role |-> "", reason_codes |-> <<>>,
                     risk_factors |-> <<>>]

\* RecommendDecisionNode.run: [raised, ctx]
RecommendDecisionNode(c, pol, inp) ==
    LET map == RuleDecisionMap(pol.rules, Len(pol.rules))
        decision == DecisionPriority(HitDecisions(c._hit_rules, map, 1))
        rr == DeriveRequiredRole(pol.authority, inp, 1)
    IN IF rr.raised # "" THEN [raised |-> rr.raised, ctx |-> c]
       ELSE [raised |-> "",
             ctx |-> [c EXCEPT !.recommendation =
                        [decision |-> decision, required_role |-> rr.role,
                         reason_codes |-> c._hit_rules,
                         risk_factors |-> RiskFactors(decision)]]]

(***************************************************************************)
(* Risk derivation (app/api/decisions.py).                                 *)
(***************************************************************************)
RISK_PRIORITY == <<"CRITICAL", "HIGH", "MEDIUM", "LOW">>

\* next(x for x in policy rules if x.id == rid, None): index of the first
\* rule of that id, 0 if none.
RuleDefIndex(rules, rid) ==
    LET I == {i \in 1..Len(rules) : rules[i].id = rid}
    IN IF I = {} THEN 0 ELSE CHOOSE i \in I : \A j \in I : i <= j

RECURSIVE CollectRiskDrivers(_, _, _)
CollectRiskDrivers(pol, rule_results, i) ==
    IF i > Len(rule_results) THEN <<>>
    ELSE LET r == rule_results[i]
             k == RuleDefIndex(pol.rules, r.rule_id)
         IN (IF r.hit /\ k # 0 /\ pol.rules[k].risk_impact # ""
             THEN <<[rule_id |-> r.rule_id, impact |-> pol.rules[k].risk_impact]>>
             ELSE <<>>)
            \o CollectRiskDrivers(pol, rule_results, i + 1)

RECURSIVE FirstPresent(_, _, _)
FirstPresent(priority, impacts, i) ==
    IF i > Len(priority) THEN "LOW"
    ELSE IF InSeq(priority[i], impacts) THEN priority[i]
    ELSE FirstPresent(priority, impacts, i + 1)

\* Mutant of DeriveRiskFromDrivers: the first driver's impact is the base
\* risk.
DeriveRiskFromDrivers_FirstDriver(drivers) ==
    IF drivers = <<>> THEN "LOW" ELSE drivers[1].impact

DeriveRiskFromDrivers(drivers) ==
    IF drivers = <<>> THEN "LOW"
    ELSE FirstPresent(RISK_PRIORITY, [i \in 1..Len(drivers) |-> drivers[i].impact], 1)

\* Mutant of ThresholdStage: the high threshold only raises a risk below
\* HIGH.
ThresholdStage_OnlyRaises(risk, amount, pol) ==
    LET high_th == pol.thresholds.high
        med_th == pol.thresholds.medium
    IN IF high_th # None /\ amount >= high_th.n /\ risk \in {"LOW", "MEDIUM"}
       THEN "HIGH"
       ELSE IF med_th # None /\ amount >= med_th.n /\ risk = "LOW" THEN "MEDIUM"
       ELSE risk

\* Lines 182-189: the amount thresholds.
ThresholdStage(risk, amount, pol) ==
    LET high_th == pol.thresholds.high
        med_th == pol.thresholds.medium
    IN IF high_th # None /\ amount >= high_th.n THEN "HIGH"
       ELSE IF med_th # None /\ amount >= med_th.n /\ risk = "LOW" THEN "MEDIUM"
       ELSE risk

\* config.get("force_risk_level", "HIGH"); "" is an unset key.
ForceRiskLevel(config) ==
    IF config.force_risk_level = "" THEN "HIGH" ELSE config.force_risk_level

\* Mutant of ConfigStage: the override also fires at the threshold itself
\* (>= for >).
ConfigStage_AtThreshold(risk, amount, pol) ==
    LET force_th == pol.config.high_risk_threshold
    IN IF force_th # None /\ amount >= force_th.n THEN ForceRiskLevel(pol.config)
       ELSE risk

\* Lines 191-194: the config override.
ConfigStage(risk, amount, pol) ==
    LET force_th == pol.config.high_risk_threshold
    IN IF force_th # None /\ amount > force_th.n THEN ForceRiskLevel(pol.config)
       ELSE risk

ApplyThresholdSafetyNet(current_risk, amount, pol) ==
    ConfigStage(ThresholdStage(current_risk, amount, pol), amount, pol)

(***************************************************************************)
(* Bounds and the policies and inputs the model draws from.                *)
(***************************************************************************)
\* Amounts range over 0..MaxAmount.
MaxAmount == 3

\* A policy of the rule family holds at most MaxRules of the rules below.
MaxRules == 3

\* line_items holds at most MaxItems items.
MaxItems == 2

AllRules ==
    << Rule("HIGH_AMOUNT_ESCALATION", "", TRUE,
            <<Cond("amount_total", ">", Num(1))>>, "", "HIGH"),
       Rule("VENDOR_BLACKLIST_CHECK", "deterministic", TRUE,
            <<Cond("vendor_status", "==", BLACKLISTED)>>, "", "CRITICAL"),
       Rule("SLA_BREACH", "", TRUE,
            <<Cond("vendor_status", "!=", BLACKLISTED),
              Cond("amount_total", "<=", Num(2))>>, "", "MEDIUM"),
       Rule("HIGH_VALUE_REVIEW", "", TRUE,
            <<Cond("amount_total", ">=", Num(2)),
              Cond("hours_to_sla", "<", Num(24))>>, "REVIEW", ""),
       Rule("AUDIT_TRAIL_RULE", "", TRUE, <<>>, "", ""),
       Rule("SEMANTIC_ITEM_CHECK", "llm_semantic_check", TRUE, <<>>, "ESCALATE", "MEDIUM"),
       Rule("CONTRACT_PRICE_VARIANCE", "contract_check", TRUE, <<>>, "REJECT", "CRITICAL"),
       Rule("BUDGET_EXCEEDED", "", FALSE, <<>>, "", "HIGH") >>

\* The rules of AllRules at the indices in S, in the order of AllRules.
RECURSIVE PickRules(_, _)
PickRules(S, i) ==
    IF i > Len(AllRules) THEN <<>>
    ELSE (IF i \in S THEN <<AllRules[i]>> ELSE <<>>) \o PickRules(S, i + 1)

RuleLists ==
    {PickRules(S, 1) : S \in {T \in SUBSET (1..Len(AllRules)) : Cardinality(T) <= MaxRules}}

DefaultCC == [validity_check |-> FALSE, price_check |-> FALSE,
              max_allowed_variance_pct |-> 0]

NoThresholds == [medium |-> None, high |-> None]

NoConfig == [high_risk_threshold |-> None, force_risk_level |-> ""]

Policy(rules, cc, th, cfg, auth) ==
    [rules |-> rules, contract_compliance |-> cc, thresholds |-> th,
     config |-> cfg, authority |-> auth]

\* The values of vendor_status: two statuses, a number, and None for a
\* missing key.
VendorStatuses == {ACTIVE, BLACKLISTED, Num(7), None}

Fields(amount, vendor_status, hours) ==
    ("amount_total" :> Num(amount))
    @@ (IF vendor_status = None THEN <<>> ELSE ("vendor_status" :> vendor_status))
    @@ (IF hours = None THEN <<>> ELSE ("hours_to_sla" :> hours))

Inputs(amount, vendor_status, hours, contract, line_items) ==
    [fields |-> Fields(amount, vendor_status, hours), contract |-> contract,
     line_items |-> line_items]

\* Contract price map: X and Y cost 10, W has a zero price, V no price; Z is
\* not in the map.
ContractItems ==
    ("X" :> [price |-> Num(10)]) @@ ("Y" :> [price |-> Num(10)])
    @@ ("W" :> [price |-> Num(0)]) @@ ("V" :> [price |-> None])

DocA == Str(<<1>>)

Contracts ==
    { NoContract,
      [kind |-> "dict", keys |-> {}, doc_id |-> None, is_active |-> TRUE,
       contract_items |-> <<>>],
      [kind |-> "dict", keys |-> {"is_active", "contract_items"}, doc_id |-> None,
       is_active |-> FALSE, contract_items |-> ContractItems],
      [kind |-> "dict", keys |-> {"doc_id", "is_active", "contract_items"},
       doc_id |-> DocA, is_active |-> TRUE, contract_items |-> ContractItems],
      [kind |-> "dict", keys |-> {"doc_id", "is_active", "contract_items"},
       doc_id |-> DocA, is_active |-> FALSE, contract_items |-> ContractItems],
      [kind |-> "dict", keys |-> {"doc_id", "is_active"},
       doc_id |-> DocA, is_active |-> TRUE, contract_items |-> <<>>] }

Item(sku, price) == [sku |-> sku, keys |-> {"sku", "unit_price"}, unit_price |-> price]

Items ==
    { Item("X", Num(12)), Item("X", Num(10)), Item("Y", Num(12)), Item("Z", Num(12)),
      Item("W", Num(5)), Item("V", Num(12)), Item("X", None),
      [sku |-> "Y", keys |-> {"sku"}, unit_price |-> None] }

ItemLists == UNION {[1..n -> Items] : n \in 0..MaxItems}

ContractConfigs ==
    { DefaultCC,
      [validity_check |-> TRUE, price_check |-> FALSE, max_allowed_variance_pct |-> 5],
      [validity_check |-> FALSE, price_check |-> TRUE, max_allowed_variance_pct |-> 5],
      [validity_check |-> TRUE, price_check |-> TRUE, max_allowed_variance_pct |-> 5],
      [validity_check |-> TRUE, price_check |-> TRUE, max_allowed_variance_pct |-> 20] }

AuthRule(cond, role) == [keys |-> {"condition", "required_role"}, condition |-> cond,
                         required_role |-> role]

AuthorityLists ==
    { <<>>,
      <<AuthRule(<<"amount_total", ">", Num(2)>>, "Finance_Director")>>,
      <<AuthRule(<<"amount_total", ">", Num(1)>>, "Department_Head"),
        AuthRule(<<"amount_total", ">", Num(2)>>, "Finance_Director")>>,
      <<AuthRule(<<"amount_total", ">", Str(<<1>>)>>, "Finance_Director"),
        AuthRule(<<"amount_total", ">=", Num(1)>>, "Department_Head")>>,
      <<AuthRule(<<"budget_owner", ">", Num(0)>>, "Finance_Director"),
        AuthRule(<<"amount_total", ">=", Num(1)>>, "Department_Head")>>,
      <<AuthRule(<<"amount_total", ">2">>, "Finance_Director")>>,
      <<[keys |-> {"required_role"}, condition |-> <<>>,
         required_role |-> "Finance_Director"]>> }

\* The (policy, inputs) pairs a run starts from: policies varying in their
\* rules, in their contract compliance, in their risk thresholds and in
\* their authority rules.
RuleScenarios ==
    { [policy |-> Policy(rl, DefaultCC, NoThresholds, NoConfig, <<>>),
       inputs |-> Inputs(a, v, None, NoContract, <<>>)] :
      rl \in RuleLists, a \in 0..MaxAmount, v \in VendorStatuses }

\* Contract objects with line items; without a contract reference the node
\* reads only the number of line items.
ContractInputs ==
    {x \in Contracts \X ItemLists : NoContractReference(x[1]) => Len(x[2]) <= 1}

\* The price check goes through the line items only when it is enabled and
\* the contract has a price map; otherwise the node reads at most the first
\* line item.
ContractScenarios ==
    { [policy |-> Policy(<<AllRules[1], AllRules[7]>>, y[1], NoThresholds,
                         NoConfig, <<>>),
       inputs |-> Inputs(MaxAmount, ACTIVE, Num(48), y[2][1], y[2][2])] :
      y \in { z \in ContractConfigs \X ContractInputs :
                (~z[1].price_check \/ "contract_items" \notin z[2][1].keys)
                => Len(z[2][2]) <= 1 } }

\* A semantic rule without a description key.
SemanticScenarios ==
    { [policy |-> Policy(<<AllRules[1],
                           [AllRules[6] EXCEPT !.has_description = FALSE]>>,
                         DefaultCC, NoThresholds, NoConfig, <<>>),
       inputs |-> Inputs(a, ACTIVE, None, NoContract, <<>>)] : a \in 0..MaxAmount }

RiskScenarios ==
    { [policy |-> Policy(rl, DefaultCC, [medium |-> m, high |-> h],
                         [high_risk_threshold |-> f, force_risk_level |-> lvl], <<>>),
       inputs |-> Inputs(a, v, None, NoContract, <<>>)] :
      rl \in {<<>>, <<AllRules[2]>>, <<AllRules[1], AllRules[2]>>},
      m \in {None, Num(1)}, h \in {None, Num(2)}, f \in {None, Num(1), Num(2)},
      lvl \in {"", "HIGH", "CRITICAL", "LOW"},
      a \in 0..MaxAmount, v \in {ACTIVE, BLACKLISTED} }

AuthorityScenarios ==
    { [policy |-> Policy(<<AllRules[1]>>, DefaultCC, NoThresholds, NoConfig, au),
       inputs |-> Inputs(a, ACTIVE, Num(12), NoContract, <<>>)] :
      au \in AuthorityLists, a \in 0..MaxAmount }

\* A rule whose type is none of deterministic, llm_semantic_check and
\* contract_check.
OtherTypeRule ==
    Rule("MANUAL_SIGNOFF_NOTE", "manual_review", TRUE,
         <<Cond("amount_total", ">", Num(1))>>, "", "HIGH")

TypeScenarios ==
    { [policy |-> Policy(rl, DefaultCC, NoThresholds, NoConfig, <<>>),
       inputs |-> Inputs(a, ACTIVE, None, NoContract, <<>>)] :
      rl \in {<<OtherTypeRule>>, <<AllRules[2], OtherTypeRule, AllRules[8]>>},
      a \in 0..MaxAmount }

\* A rule whose declared decision differs from the one its id prefix stands
\* for, alone and next to a rule with neither.
DecisionScenarios ==
    { [policy |-> Policy(rl, DefaultCC, NoThresholds, NoConfig, <<>>),
       inputs |-> Inputs(a, ACTIVE, Num(12), NoContract, <<>>)] :
      rl \in {<<AllRules[4]>>, <<AllRules[4], AllRules[5]>>},
      a \in 0..MaxAmount }

Scenarios ==
    RuleScenarios \cup ContractScenarios \cup RiskScenarios \cup AuthorityScenarios
    \cup SemanticScenarios \cup TypeScenarios \cup DecisionScenarios

(***************************************************************************)
(* The run: one action per node and step.                                  *)
(***************************************************************************)
NoResult == [rule_results |-> <<>>, recommendation |-> NoRecommendation]

\* The context DecisionEngine.evaluate builds on entry (lines 372-378).
NewCtx == [rule_results |-> <<>>, recommendation |-> NoRecommendation,
           _hit_rules |-> <<>>]

NoCmp == [actual |-> None, operator |-> "", expected |-> None, out |-> "idle"]

Amount == inputs.fields["amount_total"].n

\* Mutant of Uuid4: the values repeat with period two.
Uuid4_Repeating == (uuids % 2) + 1

\* uuid.uuid4(): a value no earlier call has returned, here the number of
\* the call.
Uuid4 == uuids + 1

\* The cases a run may be about.
CaseIds == {1, 2}

\* The record AuditService.write inserts: event_type and the payload's keys
\* (a key the event does not carry holds its empty value).
Event(event_type) ==
    [event_type |-> event_type, case_id |-> case_id, run_id |-> run_id,
     rule_id |-> "", hit |-> FALSE, matched |-> <<>>,
     recommendation |-> NoRecommendation, decision |-> "", risk_level |-> ""]

\* AuditService.write: the table is append-only.
AuditWrite(ev) == audit' = Append(audit, ev)

\* The cases table before any run has saved: the status of a case that was
\* never evaluated, and no decision in its payload.
NewCases ==
    [c \in CaseIds |-> [status |-> "NEW", last_decision |-> "", risk_level |-> ""]]

\* No concurrent run.
NoRun ==
    [pc |-> "none", inputs |-> Inputs(0, None, None, NoContract, <<>>),
     ctx |-> NewCtx, result |-> NoResult, risk_drivers |-> <<>>, base_risk |-> "",
     new_risk |-> "", case_id |-> 0, run_id |-> 0]

\* derive is not running.
NoDerive ==
    [events |-> <<>>, i |-> 0, status |-> "", decided_at |-> None,
     decided_by |-> None, reason |-> None]

Init ==
    /\ \E sc \in Scenarios : policy = sc.policy /\ inputs = sc.inputs
    /\ pc = "run"
    /\ ctx = NewCtx
    /\ result = NoResult
    /\ risk_drivers = <<>>
    /\ base_risk = ""
    /\ new_risk = ""
    /\ returned = <<>>
    /\ cmp = NoCmp
    /\ case_id = 1
    /\ run_id = 0
    /\ uuids = 0
    /\ audit = <<>>
    /\ cases = NewCases
    /\ parked = NoRun
    /\ derived = NoDerive

\* The entry of `returned` for a call that raised exc.
RaisedEntry(exc) ==
    [amount |-> Amount, raised |-> exc, result |-> NoResult, risk |-> "",
     run_id |-> 0]

\* Mutant of NodeOutcome: the node consumes the line items it has read
\* (it leaves inputs["line_items"] empty).
NodeOutcome_ConsumesItems(r, next) ==
    /\ ctx' = r.ctx
    /\ IF r.raised = ""
       THEN pc' = next /\ returned' = returned
       ELSE pc' = "raised" /\ returned' = Append(returned, RaisedEntry(r.raised))
    /\ inputs' = [inputs EXCEPT !.line_items = <<>>]
    /\ UNCHANGED <<policy, result, risk_drivers, base_risk, new_risk, cmp>>
    /\ UNCHANGED auditVars
    /\ UNCHANGED <<cases, parked, derived>>

\* A node's outcome r = [raised, ctx]: go on to the node `next`, or leave
\* the call with the exception.
NodeOutcome(r, next) ==
    /\ ctx' = r.ctx
    /\ IF r.raised = ""
       THEN pc' = next /\ returned' = returned
       ELSE pc' = "raised" /\ returned' = Append(returned, RaisedEntry(r.raised))
    /\ UNCHANGED <<policy, inputs, result, risk_drivers, base_risk, new_risk, cmp>>
    /\ UNCHANGED auditVars
    /\ UNCHANGED <<cases, parked, derived>>

\* execute_decision_run, lines 293-299: the run's id and its first event.
StartRun ==
    /\ pc = "run"
    /\ run_id' = Uuid4
    /\ uuids' = uuids + 1
    /\ AuditWrite([Event("DECISION_RUN_STARTED") EXCEPT !.run_id = Uuid4])
    /\ pc' = "call"
    /\ UNCHANGED <<policy, inputs, ctx, result, risk_drivers, base_risk,
                   new_risk, returned, cmp, case_id>>
    /\ UNCHANGED <<cases, parked, derived>>

\* Mutant of NODES: the contract node runs before the semantic node.
NODES_ContractBeforeLLM ==
    <<"evaluate_rules", "evaluate_contract", "evaluate_llm_rules",
      "recommend_decision">>

\* DecisionEngine.NODES, by node name.
NODES ==
    <<"evaluate_rules", "evaluate_llm_rules", "evaluate_contract",
      "recommend_decision">>

\* The position after node `name` in `for node in cls.NODES`: the next
\* node, or the return after the last one.
NextNode(name) ==
    LET i == CHOOSE k \in 1..Len(NODES) : NODES[k] = name
    IN IF i < Len(NODES) THEN NODES[i + 1] ELSE "return"

\* DecisionEngine.evaluate, entry: a fresh context.
Evaluate ==
    /\ pc = "call"
    /\ ctx' = NewCtx
    /\ pc' = NODES[1]
    /\ UNCHANGED <<policy, inputs, result, risk_drivers, base_risk, new_risk,
                   returned, cmp>>
    /\ UNCHANGED auditVars
    /\ UNCHANGED <<cases, parked, derived>>

EvaluateRules ==
    /\ pc = "evaluate_rules"
    /\ NodeOutcome([raised |-> "", ctx |-> EvaluateRulesNode(ctx, policy, inputs)],
                   NextNode("evaluate_rules"))

EvaluateLLM ==
    /\ pc = "evaluate_llm_rules"
    /\ NodeOutcome(EvaluateLLMNode(ctx, policy, inputs),
                   NextNode("evaluate_llm_rules"))

EvaluateContract ==
    /\ pc = "evaluate_contract"
    /\ NodeOutcome(EvaluateContractNode(ctx, policy, inputs),
                   NextNode("evaluate_contract"))

RecommendDecision ==
    /\ pc = "recommend_decision"
    /\ NodeOutcome(RecommendDecisionNode(ctx, policy, inputs),
                   NextNode("recommend_decision"))

\* node.run(ctx) for the node of that name: [raised, ctx].
RunNode(name, c, pol, inp) ==
    CASE name = "evaluate_rules" ->
            [raised |-> "", ctx |-> EvaluateRulesNode(c, pol, inp)]
      [] name = "evaluate_llm_rules" -> EvaluateLLMNode(c, pol, inp)
      [] name = "evaluate_contract" -> EvaluateContractNode(c, pol, inp)
      [] name = "recommend_decision" -> RecommendDecisionNode(c, pol, inp)

\* `for node in cls.NODES: ctx = node.run(ctx)` from node i on: [raised, ctx].
RECURSIVE RunNodes(_, _, _, _)
RunNodes(i, c, pol, inp) ==
    IF i > Len(NODES) THEN [raised |-> "", ctx |-> c]
    ELSE LET r == RunNode(NODES[i], c, pol, inp)
         IN IF r.raised # "" THEN r ELSE RunNodes(i + 1, r.ctx, pol, inp)

\* DecisionEngine.evaluate(policy, inputs) as one call: [raised, result].
EvaluateCall(pol, inp) ==
    LET r == RunNodes(1, NewCtx, pol, inp)
    IN [raised |-> r.raised,
        result |-> IF r.raised # "" THEN NoResult
                   ELSE [rule_results |-> r.ctx.rule_results,
                         recommendation |-> r.ctx.recommendation]]

\* Step 6 as one call: the risk level of a returned result.
RiskOf(pol, inp, res) ==
    ApplyThresholdSafetyNet(
        DeriveRiskFromDrivers(CollectRiskDrivers(pol, res.rule_results, 1)),
        inp.fields["amount_total"].n, pol)

\* DecisionEngine.evaluate, exit: rule_results and recommendation.
Return ==
    /\ pc = "return"
    /\ result' = [rule_results |-> ctx.rule_results,
                  recommendation |-> ctx.recommendation]
    /\ pc' = "derive_risk"
    /\ UNCHANGED <<policy, inputs, ctx, risk_drivers, base_risk, new_risk,
                   returned, cmp>>
    /\ UNCHANGED auditVars
    /\ UNCHANGED <<cases, parked, derived>>

\* Step 6 of execute_decision_run: drivers, base risk, safety net.
DeriveRiskLevel ==
    /\ pc = "derive_risk"
    /\ LET drivers == CollectRiskDrivers(policy, result.rule_results, 1)
           base == DeriveRiskFromDrivers(drivers)
           risk == ApplyThresholdSafetyNet(base, Amount, policy)
       IN /\ risk_drivers' = drivers
          /\ base_risk' = base
          /\ new_risk' = risk
    /\ pc' = "audit_risk"
    /\ UNCHANGED <<policy, inputs, ctx, result, returned, cmp>>
    /\ UNCHANGED auditVars
    /\ UNCHANGED <<cases, parked, derived>>

\* result["recommendation"].get("decision", "REVIEW") (line 305).
DecisionVal == result.recommendation.decision

\* Mutant of AuditRiskDerived: the recommendation is announced together
\* with the risk level, before the rule events.
AuditRiskDerived_AndRecommended ==
    /\ pc = "audit_risk"
    /\ audit' = audit \o
          << [Event("RISK_LEVEL_DERIVED") EXCEPT
                 !.risk_level = new_risk, !.decision = DecisionVal],
             [Event("DECISION_RECOMMENDED") EXCEPT
                 !.recommendation = result.recommendation] >>
    /\ pc' = "audit_rules"
    /\ UNCHANGED <<policy, inputs, ctx, result, risk_drivers, base_risk,
                   new_risk, returned, cmp, case_id, run_id, uuids>>
    /\ UNCHANGED <<cases, parked, derived>>

\* Step 7: the RISK_LEVEL_DERIVED event.
AuditRiskDerived ==
    /\ pc = "audit_risk"
    /\ AuditWrite([Event("RISK_LEVEL_DERIVED") EXCEPT
                      !.risk_level = new_risk, !.decision = DecisionVal])
    /\ pc' = "audit_rules"
    /\ UNCHANGED <<policy, inputs, ctx, result, risk_drivers, base_risk,
                   new_risk, returned, cmp, case_id, run_id, uuids>>
    /\ UNCHANGED <<cases, parked, derived>>

\* How many rule results of this run the loop of step 8 has gone through.
RulesAudited ==
    Cardinality({i \in 1..Len(audit) :
                   /\ audit[i].event_type = "RULE_EVALUATED"
                   /\ audit[i].run_id = run_id})

\* Mutant of RuleEvent: the event leaves the matched list out.
RuleEvent_MatchedDropped(rr) ==
    [Event("RULE_EVALUATED") EXCEPT !.rule_id = rr.rule_id, !.hit = rr.hit]

\* The RULE_EVALUATED payload of the rule result rr (lines 386-397).
RuleEvent(rr) ==
    [Event("RULE_EVALUATED") EXCEPT
        !.rule_id = rr.rule_id, !.hit = rr.hit, !.matched = rr.matched]

\* Step 8, one turn of the loop over result["rule_results"]: the
\* RULE_EVALUATED event of the next rule result.
AuditRuleEvaluated ==
    /\ pc = "audit_rules"
    /\ RulesAudited < Len(result.rule_results)
    /\ AuditWrite(RuleEvent(result.rule_results[RulesAudited + 1]))
    /\ UNCHANGED <<policy, inputs, pc, ctx, result, risk_drivers, base_risk,
                   new_risk, returned, cmp, case_id, run_id, uuids>>
    /\ UNCHANGED <<cases, parked, derived>>

\* Step 9, after the loop: the DECISION_RECOMMENDED event.
AuditRecommended ==
    /\ pc = "audit_rules"
    /\ RulesAudited = Len(result.rule_results)
    /\ AuditWrite([Event("DECISION_RECOMMENDED") EXCEPT
                      !.recommendation = result.recommendation])
    /\ pc' = "audit_completed"
    /\ UNCHANGED <<policy, inputs, ctx, result, risk_drivers, base_risk,
                   new_risk, returned, cmp, case_id, run_id, uuids>>
    /\ UNCHANGED <<cases, parked, derived>>

\* The DECISION_RUN_COMPLETED event (lines 408-417).
CompleteRun ==
    /\ pc = "audit_completed"
    /\ AuditWrite([Event("DECISION_RUN_COMPLETED") EXCEPT
                      !.decision = DecisionVal, !.risk_level = new_risk])
    /\ pc' = "save_case"
    /\ UNCHANGED <<policy, inputs, ctx, result, risk_drivers, base_risk,
                   new_risk, returned, cmp, case_id, run_id, uuids>>
    /\ UNCHANGED <<cases, parked, derived>>

\* The record repo.save_case stores for the run's case (lines 424-447): the
\* whole case, with this run's decision and risk level in its payload.
SavedCase ==
    [status |-> "EVALUATED", last_decision |-> DecisionVal, risk_level |-> new_risk]

\* Step 10, the sync back to the case (the repository takes the save), and
\* the return: the returned run_id is a new uuid4 (line 460).
SaveCase ==
    /\ pc = "save_case"
    /\ cases' = [cases EXCEPT ![case_id] = SavedCase]
    /\ uuids' = uuids + 1
    /\ returned' = Append(returned,
          [amount |-> Amount, raised |-> "", result |-> result,
           risk |-> new_risk, run_id |-> Uuid4])
    /\ pc' = "done"
    /\ UNCHANGED <<policy, inputs, ctx, result, risk_drivers, base_risk,
                   new_risk, cmp, case_id, run_id, audit>>
    /\ UNCHANGED <<parked, derived>>

\* The caller runs the same policy once more: on the same case again, its
\* payload as it was, or on the other case, whose amount is larger.
NextCall ==
    /\ pc \in {"done", "raised"}
    /\ Len(returned) = 1
    /\ \E a \in Amount..MaxAmount :
          inputs' = [inputs EXCEPT !.fields["amount_total"] = Num(a)]
    /\ case_id' = (IF inputs'.fields["amount_total"] = inputs.fields["amount_total"]
                   THEN case_id ELSE CHOOSE c \in CaseIds : c # case_id)
    /\ pc' = "run"
    /\ UNCHANGED <<policy, ctx, result, risk_drivers, base_risk, new_risk,
                   returned, cmp, run_id, uuids, audit>>
    /\ UNCHANGED <<cases, parked, derived>>

Next ==
    \/ StartRun
    \/ Evaluate
    \/ EvaluateRules
    \/ EvaluateLLM
    \/ EvaluateContract
    \/ RecommendDecision
    \/ Return
    \/ DeriveRiskLevel
    \/ AuditRiskDerived
    \/ AuditRuleEvaluated
    \/ AuditRecommended
    \/ CompleteRun
    \/ SaveCase
    \/ NextCall

Spec == Init /\ [][Next]_vars

\* The steps of execute_decision_run.  The function is synchronous: once
\* called it runs each of its statements in turn, so a step that is enabled
\* is eventually taken; when the caller calls again is the caller's choice.
RunStep ==
    \/ StartRun
    \/ Evaluate
    \/ EvaluateRules
    \/ EvaluateLLM
    \/ EvaluateContract
    \/ RecommendDecision
    \/ Return
    \/ DeriveRiskLevel
    \/ AuditRiskDerived
    \/ AuditRuleEvaluated
    \/ AuditRecommended
    \/ CompleteRun
    \/ SaveCase

SpecLive == Init /\ [][Next]_vars /\ WF_vars(RunStep)

(***************************************************************************)
(* Two concurrent runs.  The /run endpoint is a synchronous handler, so     *)
(* two requests execute execute_decision_run in two threads; each thread   *)
(* has its own locals, and the audit table, the cases table and uuid4 are  *)
(* what they share.  The variables hold the locals of the thread that is   *)
(* executing, `parked` those of the other one.                             *)
(***************************************************************************)
\* The locals of the executing run.
Running ==
    [pc |-> pc, inputs |-> inputs, ctx |-> ctx, result |-> result,
     risk_drivers |-> risk_drivers, base_risk |-> base_risk, new_risk |-> new_risk,
     case_id |-> case_id, run_id |-> run_id]

\* Mutant of Switch: the context of DecisionEngine.evaluate is not a local
\* of the run, both runs work on one context.
Switch_SharedContext ==
    /\ parked.pc \notin {"none", "done", "raised"}
    /\ parked' = Running
    /\ pc' = parked.pc
    /\ inputs' = parked.inputs
    /\ ctx' = ctx
    /\ result' = parked.result
    /\ risk_drivers' = parked.risk_drivers
    /\ base_risk' = parked.base_risk
    /\ new_risk' = parked.new_risk
    /\ case_id' = parked.case_id
    /\ run_id' = parked.run_id
    /\ UNCHANGED <<policy, returned, cmp, uuids, audit, cases, derived>>

\* The scheduler takes the executing thread off and puts the other one on,
\* between any two steps, as long as the other one has steps left.
Switch ==
    /\ parked.pc \notin {"none", "done", "raised"}
    /\ parked' = Running
    /\ pc' = parked.pc
    /\ inputs' = parked.inputs
    /\ ctx' = parked.ctx
    /\ result' = parked.result
    /\ risk_drivers' = parked.risk_drivers
    /\ base_risk' = parked.base_risk
    /\ new_risk' = parked.new_risk
    /\ case_id' = parked.case_id
    /\ run_id' = parked.run_id
    /\ UNCHANGED <<policy, returned, cmp, uuids, audit, cases, derived>>

\* Two requests under one policy: for two cases, or for the same case (the
\* second request has loaded the case after its amount was changed).
PairScenarios ==
    { [policy |-> Policy(<<AllRules[1]>>, DefaultCC, NoThresholds, NoConfig, <<>>),
       first |-> Inputs(a, ACTIVE, None, NoContract, <<>>),
       second |-> Inputs(b, ACTIVE, None, NoContract, <<>>),
       second_case |-> c] :
      a \in {0, MaxAmount}, b \in {MaxAmount}, c \in CaseIds }

InitPair ==
    /\ \E sc \in PairScenarios :
          /\ policy = sc.policy
          /\ inputs = sc.first
          /\ parked = [NoRun EXCEPT !.pc = "run", !.inputs = sc.second,
                                    !.case_id = sc.second_case]
    /\ pc = "run"
    /\ ctx = NewCtx
    /\ result = NoResult
    /\ risk_drivers = <<>>
    /\ base_risk = ""
    /\ new_risk = ""
    /\ returned = <<>>
    /\ cmp = NoCmp
    /\ case_id = 1
    /\ run_id = 0
    /\ uuids = 0
    /\ audit = <<>>
    /\ cases = NewCases
    /\ derived = NoDerive

NextPair == RunStep \/ Switch

SpecPair == InitPair /\ [][NextPair]_vars

(***************************************************************************)
(* The comparator on its own: Init draws the operands, Compare applies     *)
(* _safe_compare.                                                          *)
(***************************************************************************)
CmpValues ==
    { None, Num(0), Num(1), Num(2), ACTIVE, ACTIVE_B, BLACKLISTED,
      List(<<Num(1)>>), List(<<Num(1), ACTIVE>>), List(<<ACTIVE, BLACKLISTED>>) }

CmpOperators == Operators \cup {"unknown_op"}

InitCompare ==
    /\ policy = Policy(<<>>, DefaultCC, NoThresholds, NoConfig, <<>>)
    /\ inputs = Inputs(0, None, None, NoContract, <<>>)
    /\ pc = "compare"
    /\ ctx = NewCtx
    /\ result = NoResult
    /\ risk_drivers = <<>>
    /\ base_risk = ""
    /\ new_risk = ""
    /\ returned = <<>>
    /\ case_id = 1 /\ run_id = 0 /\ uuids = 0 /\ audit = <<>>
    /\ cases = NewCases /\ parked = NoRun /\ derived = NoDerive
    /\ \E a \in CmpValues, op \in CmpOperators, e \in CmpValues :
          cmp = [actual |-> a, operator |-> op, expected |-> e, out |-> "idle"]

Compare ==
    /\ pc = "compare"
    /\ cmp.out = "idle"
    /\ cmp' = [cmp EXCEPT !.out =
                 PyBool(SafeCompare(cmp.actual, cmp.operator, cmp.expected))]
    /\ UNCHANGED <<policy, inputs, pc, ctx, result, risk_drivers, base_risk,
                   new_risk, returned>>
    /\ UNCHANGED auditVars
    /\ UNCHANGED <<cases, parked, derived>>

NextCompare == Compare

SpecCompare == InitCompare /\ [][NextCompare]_vars

(***************************************************************************)
(* DecisionStatusService.derive on its own: Init draws the audit events,   *)
(* DeriveStep is one pass of its loop.                                     *)
(*   event: [event_type, actor_role, reason]: payload.get("actor_role")    *)
(*   and payload.get("reason"), None for a missing key; the timestamp of   *)
(*   the i-th event is i.                                                  *)
(***************************************************************************)
\* derive is given at most MaxEvents events.
MaxEvents == 3

Director == Str(<<3>>)

ReasonText == Str(<<4>>)

StatusEvent(event_type, actor_role, reason) ==
    [event_type |-> event_type, actor_role |-> actor_role, reason |-> reason]

\* The events of a case's timeline: those of a run (no actor_role in the
\* payload) and those DecisionActionService._record_action writes; approve
\* may come without a reason.
StatusEvents ==
    { StatusEvent("RULE_EVALUATED", None, None),
      StatusEvent("DECISION_RECOMMENDED", None, None),
      StatusEvent("DECISION_APPROVED", Director, None),
      StatusEvent("DECISION_APPROVED", Director, ReasonText),
      StatusEvent("DECISION_REJECTED", Director, ReasonText),
      StatusEvent("DECISION_OVERRIDDEN", Director, ReasonText) }

InitDerive ==
    /\ policy = Policy(<<>>, DefaultCC, NoThresholds, NoConfig, <<>>)
    /\ inputs = Inputs(0, None, None, NoContract, <<>>)
    /\ pc = "derive"
    /\ ctx = NewCtx
    /\ result = NoResult
    /\ risk_drivers = <<>>
    /\ base_risk = ""
    /\ new_risk = ""
    /\ returned = <<>>
    /\ cmp = NoCmp
    /\ case_id = 1 /\ run_id = 0 /\ uuids = 0 /\ audit = <<>>
    /\ cases = NewCases /\ parked = NoRun
    /\ \E evs \in UNION {[1..n -> StatusEvents] : n \in 0..MaxEvents} :
          derived = [NoDerive EXCEPT !.events = evs, !.status = "NO_DECISION"]

\* The status a decision event sets.
ActionStatus(event_type) ==
    CASE event_type = "DECISION_APPROVED" -> "APPROVED"
      [] event_type = "DECISION_REJECTED" -> "REJECTED"
      [] event_type = "DECISION_OVERRIDDEN" -> "OVERRIDDEN"

\* The body of the loop (lines 28-50) on the locals d.
StatusStep(d, ev, timestamp) ==
    IF ev.event_type = "DECISION_RECOMMENDED" THEN [d EXCEPT !.status = "PENDING"]
    ELSE IF ev.event_type \in {"DECISION_APPROVED", "DECISION_REJECTED",
                               "DECISION_OVERRIDDEN"}
    THEN [d EXCEPT !.status = ActionStatus(ev.event_type),
                   !.decided_at = Num(timestamp),
                   !.decided_by = ev.actor_role, !.reason = ev.reason]
    ELSE d

\* One pass of `for ev in audit_events`.
DeriveStep ==
    /\ pc = "derive"
    /\ derived.i < Len(derived.events)
    /\ derived' = [StatusStep(derived, derived.events[derived.i + 1], derived.i + 1)
                     EXCEPT !.i = derived.i + 1]
    /\ UNCHANGED <<policy, inputs, pc, ctx, result, risk_drivers, base_risk,
                   new_risk, returned, cmp, case_id, run_id, uuids, audit, cases,
                   parked>>

\* The return after the loop.
DeriveReturn ==
    /\ pc = "derive"
    /\ derived.i = Len(derived.events)
    /\ pc' = "derived"
    /\ UNCHANGED <<policy, inputs, ctx, result, risk_drivers, base_risk,
                   new_risk, returned, cmp, case_id, run_id, uuids, audit, cases,
                   parked, derived>>

NextDerive == DeriveStep \/ DeriveReturn

SpecDerive == InitDerive /\ [][NextDerive]_vars

(***************************************************************************)
(* Properties.                                                             *)
(***************************************************************************)
\* The call has returned from DecisionEngine.evaluate without raising.
\* The positions of execute_decision_run after DecisionEngine.evaluate has
\* returned.
AfterEvaluate ==
    {"derive_risk", "audit_risk", "audit_rules", "audit_completed", "save_case",
     "done"}

Returned == pc \in AfterEvaluate

\* The rules node has run in this call.
RulesNodeDone ==
    pc \in {"evaluate_llm_rules", "evaluate_contract", "recommend_decision",
            "return"} \cup AfterEvaluate

\* The nodes up to and including the contract node have run without raising.
ContractNodeDone == pc \in {"recommend_decision", "return"} \cup AfterEvaluate

\* The indices of the hits among the returned rule results.
HitIndices == {i \in 1..Len(result.rule_results) : result.rule_results[i].hit}

\* The decisions the hit rules of the returned result map to.
MappedDecisions ==
    LET map == RuleDecisionMap(policy.rules, Len(policy.rules))
    IN UNION { {d \in {"REJECT", "ESCALATE", "REVIEW", "APPROVE"} :
                   InSeq(d, HitDecision(result.rule_results[i].rule_id, map))} :
               i \in HitIndices }

\* C1: the returned decision is the highest-priority decision among those
\* the hit rules map to, REJECT > ESCALATE > REVIEW > APPROVE: REJECT if any
\* hit maps to REJECT, else ESCALATE if any maps to it, else REVIEW if any
\* maps to it, and APPROVE only when no hit maps to one of the three.
C1_DecisionPriority ==
    Returned =>
        LET d == result.recommendation.decision
            D == MappedDecisions
        IN /\ "REJECT" \in D => d = "REJECT"
           /\ ("REJECT" \notin D /\ "ESCALATE" \in D) => d = "ESCALATE"
           /\ ("REJECT" \notin D /\ "ESCALATE" \notin D /\ "REVIEW" \in D) => d = "REVIEW"
           /\ d = "APPROVE" <=> D \cap {"REJECT", "ESCALATE", "REVIEW"} = {}

\* A REJECT hit next to an ESCALATE hit, decided REJECT.
C1_Witness ==
    /\ pc = "done"
    /\ {"REJECT", "ESCALATE"} \subseteq MappedDecisions
    /\ result.recommendation.decision = "REJECT"

\* C2: every rule result in the context, deterministic, contract or
\* semantic, that is a miss has an empty matched list.
C2_MissHasNoEvidence ==
    \A i \in 1..Len(ctx.rule_results) :
        ~ctx.rule_results[i].hit => ctx.rule_results[i].matched = <<>>

\* The rules of the policy the deterministic evaluator takes part in.
ParticipatingRules == SelectSeq(policy.rules, Participates)

\* The conditions of a rule that compare true against the inputs.
CondTrue(cond) == SafeCompare(InputGet(inputs, cond.field), cond.operator, cond.value)

\* C3: the i-th deterministic result is that of the i-th participating
\* rule; it is a hit iff every condition of the rule's when list compares
\* true; on a hit matched has one (field, operator, expected, actual) entry
\* per condition, in order, actual being the input value of the field (so
\* an empty when list gives a hit with empty matched).
C3_HitIffAllConditions ==
    RulesNodeDone =>
        LET P == ParticipatingRules
        IN /\ Len(ctx.rule_results) >= Len(P)
           /\ \A i \in 1..Len(P) :
                LET rr == ctx.rule_results[i]
                    when == P[i].when
                IN /\ rr.rule_id = P[i].id
                   /\ rr.hit <=> \A k \in 1..Len(when) : CondTrue(when[k])
                   /\ rr.hit =>
                        rr.matched =
                          [k \in 1..Len(when) |->
                             [field |-> when[k].field, operator |-> when[k].operator,
                              expected |-> when[k].value,
                              actual |-> InputGet(inputs, when[k].field)]]

\* A two-condition rule that hits with both entries, a rule with an empty
\* when list that hits, and a rule that misses, in one run.
C3_Witness ==
    /\ pc = "done"
    /\ Len(ParticipatingRules) = 3
    /\ \E i, j, k \in 1..3 :
          /\ ctx.rule_results[i].hit /\ Len(ctx.rule_results[i].matched) = 2
          /\ ctx.rule_results[j].hit /\ ParticipatingRules[j].when = <<>>
          /\ ~ctx.rule_results[k].hit

\* The operand types do not fit the operator: an ordering between values of
\* different types, a membership test in a scalar that is no string, or of
\* a non-string in a string.  Equality and inequality are defined between
\* values of any two types.
Incompatible(actual, operator, expected) ==
    CASE operator \in {">", ">=", "<", "<="} -> actual.t # expected.t
      [] operator \in {"in", "not_in"} ->
            expected.t \in {"num", "none"} \/ (expected.t = "str" /\ actual.t # "str")
      [] operator = "contains" ->
            actual.t \in {"num", "none"} \/ (actual.t = "str" /\ expected.t # "str")
      [] OTHER -> FALSE

C5_Idempotent ==
    (Len(returned) = 2 /\ returned[1].amount = returned[2].amount) =>
        /\ returned[1].result = returned[2].result
        /\ returned[1].raised = returned[2].raised

\* Two calls on the same inputs that both returned, with hits and with a
\* semantic rule among the results.
C5_Witness ==
    /\ Len(returned) = 2
    /\ returned[1].amount = returned[2].amount
    /\ returned[2].raised = ""
    /\ returned[2].result.recommendation.reason_codes # <<>>
    /\ \E i \in 1..Len(returned[2].result.rule_results) :
          returned[2].result.rule_results[i].rule_id = "SEMANTIC_ITEM_CHECK"

RiskRank(level) ==
    CASE level = "LOW" -> 0
      [] level = "MEDIUM" -> 1
      [] level = "HIGH" -> 2
      [] level = "CRITICAL" -> 3
      [] OTHER -> 0 - 1

\* The rule ids of the hits of a returned result.
HitsOf(res) ==
    {res.rule_results[i].rule_id :
        i \in {k \in 1..Len(res.rule_results) : res.rule_results[k].hit}}

\* C6: of two runs on inputs that differ only in the amount, the one with
\* the larger amount never derives a lower risk level.  Stated for the runs
\* in which the amount changes no rule's outcome (drivers and base risk are
\* the same, only the safety net sees the amount) under a policy whose
\* force_risk_level is HIGH or unset.
C6_RiskMonotone ==
    ( /\ Len(returned) = 2
      /\ returned[1].raised = "" /\ returned[2].raised = ""
      /\ HitsOf(returned[1].result) = HitsOf(returned[2].result)
      /\ policy.config.force_risk_level \in {"", "HIGH"}
      /\ returned[1].amount <= returned[2].amount )
    => RiskRank(returned[1].risk) <= RiskRank(returned[2].risk)

\* C7: with config.high_risk_threshold set and the amount strictly above
\* it, the derived risk is config.force_risk_level (HIGH when unset),
\* whatever the base risk and the thresholds gave; otherwise the risk is
\* what the amount thresholds gave.
C7_ConfigOverride ==
    pc = "done" =>
        LET force_th == policy.config.high_risk_threshold
            level == policy.config.force_risk_level
        IN IF force_th # None /\ Amount > force_th.n
           THEN new_risk = (IF level = "" THEN "HIGH" ELSE level)
           ELSE new_risk = ThresholdStage(base_risk, Amount, policy)

\* The override fires with no risk driver at all and forces CRITICAL, which
\* neither the base risk nor the thresholds give.
C7_Witness ==
    /\ pc = "done"
    /\ policy.config.high_risk_threshold # None
    /\ Amount > policy.config.high_risk_threshold.n
    /\ risk_drivers = <<>>
    /\ policy.config.force_risk_level = "CRITICAL"
    /\ new_risk = "CRITICAL"

\* The SKUs of the line items that offend: a positive contract price and a
\* variance above max_allowed_variance_pct.
OffendingSkus ==
    LET cd == inputs.contract
        maxv == policy.contract_compliance.max_allowed_variance_pct
    IN { inputs.line_items[i].sku : i \in
           { k \in 1..Len(inputs.line_items) :
               LET it == inputs.line_items[k]
                   po == UnitPriceFloat(it)
               IN /\ it.sku \in DOMAIN cd.contract_items
                  /\ cd.contract_items[it.sku].price # None
                  /\ cd.contract_items[it.sku].price.n > 0
                  /\ po.raised = ""
                  /\ (po.n - cd.contract_items[it.sku].price.n) * 100
                        > maxv * cd.contract_items[it.sku].price.n } }

ResultsWithId(rid) ==
    {i \in 1..Len(ctx.rule_results) : ctx.rule_results[i].rule_id = rid}

\* C8: with price_check enabled and a contract reference with a doc_id,
\* the run emits exactly one CONTRACT_PRICE_VARIANCE hit with one matched
\* entry per offending SKU if some line item offends, and none otherwise.
C8_PriceVariance ==
    ( /\ ContractNodeDone
      /\ policy.contract_compliance.price_check
      /\ "doc_id" \in inputs.contract.keys /\ Truthy(inputs.contract.doc_id) )
    =>  LET V == ResultsWithId("CONTRACT_PRICE_VARIANCE")
            O == OffendingSkus
        IN IF O = {} THEN V = {}
           ELSE /\ Cardinality(V) = 1
                /\ \A i \in V :
                     /\ ctx.rule_results[i].hit
                     /\ Len(ctx.rule_results[i].matched) = Cardinality(O)
                     /\ {ctx.rule_results[i].matched[k].field :
                            k \in 1..Len(ctx.rule_results[i].matched)}
                        = {PriceField(sku) : sku \in O}

\* The inputs' contract object is absent, empty or lacks a doc_id.
LacksContractReference ==
    \/ inputs.contract.kind = "none"
    \/ inputs.contract.keys = {}
    \/ "doc_id" \notin inputs.contract.keys
    \/ inputs.contract.doc_id \in {None, Str(<<>>)}

\* C9: without a contract reference the contract node emits exactly one
\* NO_CONTRACT_REFERENCE hit and neither CONTRACT_EXPIRED nor
\* CONTRACT_PRICE_VARIANCE; with a doc_id it never emits
\* NO_CONTRACT_REFERENCE.
C9_NoContractReference ==
    /\ (ContractNodeDone /\ LacksContractReference) =>
          /\ Cardinality(ResultsWithId("NO_CONTRACT_REFERENCE")) = 1
          /\ \A i \in ResultsWithId("NO_CONTRACT_REFERENCE") : ctx.rule_results[i].hit
          /\ ResultsWithId("CONTRACT_EXPIRED") = {}
          /\ ResultsWithId("CONTRACT_PRICE_VARIANCE") = {}
    /\ ~LacksContractReference => ResultsWithId("NO_CONTRACT_REFERENCE") = {}

\* A contract object without doc_id that is inactive and has a price map,
\* under a policy with both checks enabled and an offending line item: only
\* NO_CONTRACT_REFERENCE is emitted.
C9_Witness ==
    /\ pc = "done"
    /\ inputs.contract.kind = "dict"
    /\ "doc_id" \notin inputs.contract.keys
    /\ "is_active" \in inputs.contract.keys /\ ~inputs.contract.is_active
    /\ policy.contract_compliance.validity_check
    /\ policy.contract_compliance.price_check
    /\ inputs.line_items = <<Item("X", Num(12))>>
    /\ Cardinality(ResultsWithId("NO_CONTRACT_REFERENCE")) = 1

\* C10: DecisionEngine.evaluate never ends in a raised error, whatever the
\* inputs.  Stated for the policies whose rules each carry a description, so
\* that a raised error is the inputs' doing: an empty line_items list, a
\* contract without a price map, a line item without a usable unit_price.
C10_NeverRaises ==
    (\A i \in 1..Len(policy.rules) : policy.rules[i].has_description)
    => pc # "raised"

(***************************************************************************)
(* The audit trail of execute_decision_run.                                *)
(***************************************************************************)
\* The positions in the audit table of the events of type ty of run r.
EventsOf(r, ty) ==
    {i \in 1..Len(audit) : audit[i].run_id = r /\ audit[i].event_type = ty}

\* The run ids in the audit table.
AuditedRuns == {audit[i].run_id : i \in 1..Len(audit)}

\* Run r has written its DECISION_RUN_COMPLETED.
Completed(r) == EventsOf(r, "DECISION_RUN_COMPLETED") # {}

\* Every position in I comes before every position in J.
AllBefore(I, J) == \A i \in I, j \in J : i < j

\* C11: within a run, DECISION_RUN_STARTED precedes every RULE_EVALUATED,
\* every RULE_EVALUATED precedes DECISION_RECOMMENDED, which precedes
\* DECISION_RUN_COMPLETED; DECISION_RUN_COMPLETED is the run's last event;
\* a completed run has exactly one DECISION_RUN_STARTED, RISK_LEVEL_DERIVED,
\* DECISION_RECOMMENDED and DECISION_RUN_COMPLETED.
C11_AuditOrder ==
    \A r \in AuditedRuns :
        LET started == EventsOf(r, "DECISION_RUN_STARTED")
            rules == EventsOf(r, "RULE_EVALUATED")
            risk == EventsOf(r, "RISK_LEVEL_DERIVED")
            recommended == EventsOf(r, "DECISION_RECOMMENDED")
            completed == EventsOf(r, "DECISION_RUN_COMPLETED")
        IN /\ rules # {} => started # {}
           /\ AllBefore(started, rules)
           /\ AllBefore(rules, recommended)
           /\ AllBefore(recommended, completed)
           /\ \A i \in 1..Len(audit), j \in completed :
                  audit[i].run_id = r => i <= j
           /\ Completed(r) =>
                  /\ Cardinality(started) = 1
                  /\ Cardinality(risk) = 1
                  /\ Cardinality(recommended) = 1
                  /\ Cardinality(completed) = 1

\* Two runs have completed, the later one with two rule events or more.
C11_Witness ==
    /\ pc = "done"
    /\ Cardinality({r \in AuditedRuns : Completed(r)}) = 2
    /\ Cardinality(EventsOf(run_id, "RULE_EVALUATED")) >= 2

\* The positions of the DECISION_RUN_STARTED events: each opens the part of
\* the table one execution writes.
Starts == {i \in 1..Len(audit) : audit[i].event_type = "DECISION_RUN_STARTED"}

\* C12: the events one execution writes carry one run_id and one case_id
\* (each event after the execution's DECISION_RUN_STARTED carries those of
\* the event before it), and two executions never share a run_id.
C12_RunIdentity ==
    /\ \A i \in 2..Len(audit) :
          i \notin Starts =>
              /\ audit[i].run_id = audit[i - 1].run_id
              /\ audit[i].case_id = audit[i - 1].case_id
    /\ Len(audit) > 0 => 1 \in Starts
    /\ \A i, j \in Starts : i # j => audit[i].run_id # audit[j].run_id

\* Two executions, on different cases, have both written all their events.
C12_Witness ==
    /\ pc = "done"
    /\ Cardinality(Starts) = 2
    /\ {audit[i].case_id : i \in 1..Len(audit)} = {1, 2}
    /\ Cardinality({r \in AuditedRuns : Completed(r)}) = 2

(***************************************************************************)
(* The required role.                                                      *)
(***************************************************************************)
\* The authority rule's condition `field operator numeric-value` is true of
\* the inputs.
AuthorityHolds(rule) ==
    /\ "condition" \in rule.keys
    /\ Len(rule.condition) = 3
    /\ LET actual == InputGet(inputs, rule.condition[1])
           operator == rule.condition[2]
           value == rule.condition[3]
       IN /\ actual.t = "num" /\ value.t = "num"
          /\ CASE operator = ">" -> actual.n > value.n
               [] operator = ">=" -> actual.n >= value.n
               [] operator = "<" -> actual.n < value.n
               [] operator = "<=" -> actual.n <= value.n
               [] operator = "==" -> actual.n = value.n
               [] operator = "!=" -> actual.n # value.n
               [] OTHER -> FALSE

\* The authority rules whose condition is true of the inputs.
AuthorityMatches ==
    {i \in 1..Len(policy.authority) : AuthorityHolds(policy.authority[i])}

\* C13: the required role of a returned recommendation is the role of the
\* first authority rule whose condition is true of the inputs, and
\* Procurement_Manager when no rule's condition is.
C13_RequiredRole ==
    Returned =>
        result.recommendation.required_role =
            IF AuthorityMatches = {} THEN "Procurement_Manager"
            ELSE policy.authority[CHOOSE i \in AuthorityMatches :
                     \A j \in AuthorityMatches : i <= j].required_role

\* Two authority rules match and the run has returned the first one's role.
C13_Witness ==
    /\ pc = "done"
    /\ Cardinality(AuthorityMatches) = 2
    /\ policy.authority[1].required_role # policy.authority[2].required_role
    /\ result.recommendation.required_role = policy.authority[1].required_role

(***************************************************************************)
(* The threshold safety net and the base risk.                             *)
(***************************************************************************)
\* Step 6 of this run is done: risk_drivers, base_risk and new_risk are
\* this run's.
RiskDerived ==
    pc \in {"audit_risk", "audit_rules", "audit_completed", "save_case", "done"}

\* The config override applies to this run's amount.
OverrideApplies ==
    /\ policy.config.high_risk_threshold # None
    /\ Amount > policy.config.high_risk_threshold.n

\* C14: where the config override does not apply, the derived risk is HIGH
\* when thresholds.amount.high is set and amount >= high, whatever the base
\* risk; else MEDIUM when thresholds.amount.medium is set, amount >= medium
\* and the base risk is LOW; else the base risk.
C14_ThresholdSafetyNet ==
    (RiskDerived /\ ~OverrideApplies) =>
        LET high == policy.thresholds.high
            medium == policy.thresholds.medium
        IN new_risk =
             IF high.t = "num" /\ Amount >= high.n THEN "HIGH"
             ELSE IF medium.t = "num" /\ Amount >= medium.n /\ base_risk = "LOW"
                  THEN "MEDIUM"
             ELSE base_risk

\* A CRITICAL base risk at or above the high threshold has become HIGH.
C14_Witness ==
    /\ pc = "done"
    /\ ~OverrideApplies
    /\ base_risk = "CRITICAL"
    /\ policy.thresholds.high.t = "num" /\ Amount >= policy.thresholds.high.n
    /\ new_risk = "HIGH"

\* The risk_impact the policy declares for rule id rid, "" when no rule of
\* that id declares one.
DeclaredImpact(rid) ==
    LET I == {i \in 1..Len(policy.rules) :
                policy.rules[i].id = rid /\ policy.rules[i].risk_impact # ""}
    IN IF I = {} THEN "" ELSE policy.rules[CHOOSE i \in I : TRUE].risk_impact

\* The returned rule results that are hits of a rule with a declared impact.
DrivingResults ==
    {i \in 1..Len(result.rule_results) :
        /\ result.rule_results[i].hit
        /\ DeclaredImpact(result.rule_results[i].rule_id) # ""}

\* C15: the drivers are, in order, one per hit rule result whose policy rule
\* declares a risk_impact, and no other; the base risk is the highest impact
\* among the drivers, LOW when there is none.
C15_BaseRisk ==
    RiskDerived =>
        /\ Len(risk_drivers) = Cardinality(DrivingResults)
        /\ \A i \in DrivingResults :
              LET d == risk_drivers[Cardinality({j \in DrivingResults : j <= i})]
              IN /\ d.rule_id = result.rule_results[i].rule_id
                 /\ d.impact = DeclaredImpact(d.rule_id)
        /\ LET impacts == {risk_drivers[k].impact : k \in 1..Len(risk_drivers)}
           IN base_risk =
                IF impacts = {} THEN "LOW"
                ELSE CHOOSE l \in impacts :
                        \A m \in impacts : RiskRank(m) <= RiskRank(l)

\* A HIGH driver comes before a CRITICAL one, a third hit has no declared
\* impact, and the base risk is CRITICAL.
C15_Witness ==
    /\ pc = "done"
    /\ Len(risk_drivers) = 2
    /\ risk_drivers[1].impact = "HIGH" /\ risk_drivers[2].impact = "CRITICAL"
    /\ \E i \in 1..Len(result.rule_results) :
          result.rule_results[i].hit /\ i \notin DrivingResults
    /\ base_risk = "CRITICAL"

(***************************************************************************)
(* Line items the price check has to skip.                                 *)
(***************************************************************************)
\* The contract has no usable price for the item: its SKU is not in the
\* price map, or the price there is missing, zero or negative.
NoContractPrice(item) ==
    \/ item.sku \notin DOMAIN inputs.contract.contract_items
    \/ inputs.contract.contract_items[item.sku].price = None
    \/ inputs.contract.contract_items[item.sku].price.n <= 0

\* The line items without a usable contract price.
SkippedItems ==
    {i \in 1..Len(inputs.line_items) : NoContractPrice(inputs.line_items[i])}

\* The price check runs and every line item has a numeric unit_price.
PriceCheckRuns ==
    /\ policy.contract_compliance.price_check
    /\ "doc_id" \in inputs.contract.keys /\ Truthy(inputs.contract.doc_id)
    /\ "contract_items" \in inputs.contract.keys
    /\ \A i \in 1..Len(inputs.line_items) :
          UnitPriceFloat(inputs.line_items[i]).raised = ""
    /\ policy.authority = <<>>
    /\ \A i \in 1..Len(policy.rules) : policy.rules[i].has_description

\* C16: a line item without a usable contract price raises no error,
\* produces no CONTRACT_PRICE_VARIANCE entry, and does not keep the other
\* line items from being checked: an offending item among them is reported.
C16_SkippedItems ==
    (PriceCheckRuns /\ SkippedItems # {}) =>
        /\ pc # "raised"
        /\ ContractNodeDone =>
              LET V == ResultsWithId("CONTRACT_PRICE_VARIANCE")
                  fields == UNION {
                      {ctx.rule_results[i].matched[k].field :
                          k \in 1..Len(ctx.rule_results[i].matched)} : i \in V}
              IN /\ \A i \in SkippedItems :
                       PriceField(inputs.line_items[i].sku) \notin fields
                 /\ \A sku \in OffendingSkus : PriceField(sku) \in fields

(***************************************************************************)
(* Malformed authority rules.                                              *)
(***************************************************************************)
\* The authority rule's condition is missing, has not exactly three tokens,
\* has a value that is no number, or names a field the inputs lack.
MalformedAuthority(rule) ==
    \/ "condition" \notin rule.keys
    \/ Len(rule.condition) # 3
    \/ rule.condition[3].t # "num"
    \/ InputGet(inputs, rule.condition[1]) = None

\* Nothing but the authority rules can make the run raise: no price check,
\* every rule with a description.
OnlyAuthorityCanRaise ==
    /\ ~policy.contract_compliance.price_check
    /\ \A i \in 1..Len(policy.rules) : policy.rules[i].has_description

\* C17: with a malformed authority rule in the policy the run raises no
\* exception; the malformed rule is skipped and the recommendation carries
\* the role of the first of the other rules that matches, or the default
\* role.
C17_AuthorityRecovered ==
    ( /\ OnlyAuthorityCanRaise
      /\ \E i \in 1..Len(policy.authority) :
            MalformedAuthority(policy.authority[i]) )
    => /\ pc # "raised"
       /\ Returned =>
             LET M == {i \in AuthorityMatches :
                         ~MalformedAuthority(policy.authority[i])}
             IN result.recommendation.required_role =
                  IF M = {} THEN "Procurement_Manager"
                  ELSE policy.authority[CHOOSE i \in M :
                           \A j \in M : i <= j].required_role

(***************************************************************************)
(* Rule events and rule results.                                           *)
(***************************************************************************)
\* The run_id under which the k-th execution wrote its events: that of the
\* k-th DECISION_RUN_STARTED.
RunIdOfCall(k) ==
    audit[CHOOSE i \in Starts : Cardinality({j \in Starts : j <= i}) = k].run_id

\* The k-th execution has completed.
CompletedCall(k) == k \in 1..Len(returned) /\ returned[k].raised = ""

\* C18: for every completed run, the RULE_EVALUATED events of its run_id
\* are as many as the rule results it returned, and the i-th event carries
\* the rule id, hit and matched of the i-th rule result.
C18_RuleEvents ==
    \A k \in 1..Len(returned) :
        CompletedCall(k) =>
            LET E == EventsOf(RunIdOfCall(k), "RULE_EVALUATED")
                rrs == returned[k].result.rule_results
            IN /\ Cardinality(E) = Len(rrs)
               /\ \A e \in E :
                     LET rr == rrs[Cardinality({j \in E : j <= e})]
                     IN /\ audit[e].rule_id = rr.rule_id
                        /\ audit[e].hit = rr.hit
                        /\ audit[e].matched = rr.matched

\* A completed run returned a miss and two hits, one with matched entries,
\* and its three rule events are written.
C18_Witness ==
    /\ pc = "done"
    /\ CompletedCall(Len(returned))
    /\ LET rrs == returned[Len(returned)].result.rule_results
       IN /\ Len(rrs) = 3
          /\ \E i, j \in 1..3 : ~rrs[i].hit /\ rrs[j].hit /\ rrs[j].matched # <<>>
    /\ Cardinality(EventsOf(run_id, "RULE_EVALUATED")) = 3

(***************************************************************************)
(* The order of the stages.                                                *)
(***************************************************************************)
ContractResultIds ==
    {"NO_CONTRACT_REFERENCE", "CONTRACT_EXPIRED", "CONTRACT_PRICE_VARIANCE"}

\* The ids of the policy's semantic rules.
SemanticRuleIds ==
    {policy.rules[i].id : i \in
        {k \in 1..Len(policy.rules) : policy.rules[k].type = "llm_semantic_check"}}

\* The stage a rule result comes from.
StageOf(rr) ==
    IF rr.rule_id \in ContractResultIds THEN "contract"
    ELSE IF rr.rule_id \in SemanticRuleIds THEN "semantic"
    ELSE "deterministic"

\* The place of rule result rr's stage in the sequence `stages`.
StagePlace(rr, stages) ==
    CHOOSE a \in 1..Len(stages) : stages[a] = StageOf(rr)

\* The rule results are listed stage by stage in the order `stages`: from
\* one result to the next the stage never goes back.
ListedInOrder(rrs, stages) ==
    \A i \in 2..Len(rrs) :
        StagePlace(rrs[i - 1], stages) <= StagePlace(rrs[i], stages)

\* All three stages have put their results into the context: one per
\* participating rule, one per semantic rule, and the contract stage's
\* NO_CONTRACT_REFERENCE where the inputs lack a contract reference.
StagesMerged(rrs) ==
    /\ Cardinality({i \in 1..Len(rrs) : StageOf(rrs[i]) = "deterministic"})
          = Len(ParticipatingRules)
    /\ Cardinality({i \in 1..Len(rrs) : StageOf(rrs[i]) = "semantic"})
          = Cardinality(SemanticRuleIds)
    /\ LacksContractReference =>
          \E i \in 1..Len(rrs) : rrs[i].rule_id = "NO_CONTRACT_REFERENCE"

\* The Recommender and the RiskDeriver have run only on the merged results
\* of the three stages.
RecommendedAfterMerge ==
    /\ ctx.recommendation # NoRecommendation => StagesMerged(ctx.rule_results)
    /\ RiskDerived =>
          /\ StagesMerged(result.rule_results)
          /\ result.recommendation # NoRecommendation

\* C19 as claimed: rule_results lists the deterministic results, then the
\* contract results, then the semantic results, and the Recommender and the
\* RiskDeriver run after the three stages.
C19_PipelineOrder ==
    /\ ListedInOrder(ctx.rule_results, <<"deterministic", "contract", "semantic">>)
    /\ RecommendedAfterMerge

\* C19, amended: rule_results lists the deterministic results, then the
\* semantic results, then the contract results (the order of
\* DecisionEngine.NODES), and the Recommender and the RiskDeriver run after
\* the three stages.
C19_PipelineOrderAmended ==
    /\ ListedInOrder(ctx.rule_results, <<"deterministic", "semantic", "contract">>)
    /\ RecommendedAfterMerge

\* A finished run whose rule results come from all three stages.
C19_Witness ==
    /\ pc = "done"
    /\ {StageOf(result.rule_results[i]) : i \in 1..Len(result.rule_results)}
          = {"deterministic", "semantic", "contract"}
    /\ result.recommendation # NoRecommendation

(***************************************************************************)
(* Rule participation.                                                     *)
(***************************************************************************)
\* The rule participates as the specification has it: type deterministic or
\* unset, and is_active not false.
DeterministicAndActive(rule) ==
    rule.type \in {"deterministic", ""} /\ rule.is_active # FALSE

\* The rule ids of the results the rules node has produced.
DeterministicResultIds ==
    {ctx.rule_results[i].rule_id : i \in
        {k \in 1..Len(ctx.rule_results) :
            StageOf(ctx.rule_results[k]) = "deterministic"}}

\* C20: once the rules node has run, a policy rule has a deterministic rule
\* result if and only if its type is deterministic or unset and its
\* is_active is not false.
C20_RuleParticipation ==
    RulesNodeDone =>
        \A i \in 1..Len(policy.rules) :
            (policy.rules[i].id \in DeterministicResultIds)
            <=> DeterministicAndActive(policy.rules[i])

(***************************************************************************)
(* The decision a hit rule stands for.                                     *)
(***************************************************************************)
\* The then.decision the policy declares for rule id rid, "" when no rule of
\* that id declares one.
DeclaredDecision(rid) ==
    LET I == {i \in 1..Len(policy.rules) :
                policy.rules[i].id = rid /\ policy.rules[i].then # ""}
    IN IF I = {} THEN "" ELSE policy.rules[CHOOSE i \in I : TRUE].then

\* The decision the id prefix stands for, "" for any other prefix.
PrefixDecision(rid) ==
    CASE IdPrefix(rid) \in {"VENDOR_", "BUDGET_"} -> "REJECT"
      [] IdPrefix(rid) \in {"HIGH_", "POTENTIAL_"} -> "ESCALATE"
      [] IdPrefix(rid) = "SLA_" -> "REVIEW"
      [] OTHER -> ""

\* The decision of a hit rule: the declared one, else the prefix's.
DecisionOfHit(rid) ==
    IF DeclaredDecision(rid) # "" THEN DeclaredDecision(rid) ELSE PrefixDecision(rid)

\* The decisions the hits of the returned result stand for.
DecisionsOfHits == {DecisionOfHit(rid) : rid \in HitsOf(result)} \ {""}

\* C21: a hit rule counts with the decision the policy declares for its id,
\* whatever its id prefix; without a declared decision it counts with the
\* decision of its prefix (VENDOR_, BUDGET_: REJECT; HIGH_, POTENTIAL_:
\* ESCALATE; SLA_: REVIEW), and with none it counts for nothing: the
\* returned decision is the first of REJECT, ESCALATE, REVIEW among these
\* decisions of the hits, APPROVE when there is none.
C21_DecisionMapping ==
    Returned =>
        result.recommendation.decision =
            IF "REJECT" \in DecisionsOfHits THEN "REJECT"
            ELSE IF "ESCALATE" \in DecisionsOfHits THEN "ESCALATE"
            ELSE IF "REVIEW" \in DecisionsOfHits THEN "REVIEW"
            ELSE "APPROVE"

\* HIGH_VALUE_REVIEW, declared REVIEW against its prefix, hits next to a hit
\* with neither a declared decision nor a known prefix: REVIEW is returned.
C21_Witness ==
    /\ pc = "done"
    /\ {"HIGH_VALUE_REVIEW", "AUDIT_TRAIL_RULE"} \subseteq HitsOf(result)
    /\ DeclaredDecision("HIGH_VALUE_REVIEW") = "REVIEW"
    /\ result.recommendation.decision = "REVIEW"

(***************************************************************************)
(* The arguments of DecisionEngine.evaluate.                               *)
(***************************************************************************)
\* The positions inside DecisionEngine.evaluate: its entry, its nodes and
\* its return.
InEvaluate == pc \in {"call", "return"} \cup {NODES[i] : i \in 1..Len(NODES)}

\* C23: no step of DecisionEngine.evaluate, from its entry to its return or
\* to the exception that ends it, changes the policy document or the inputs
\* map it was called with.
C23_ArgumentsUnchanged ==
    [][InEvaluate => (policy' = policy /\ inputs' = inputs)]_vars

\* evaluate has returned results with hits, among them one of the contract
\* node, which had line items and a price map to read.
C23_Witness ==
    /\ pc = "derive_risk"
    /\ "CONTRACT_PRICE_VARIANCE" \in HitsOf(result)
    /\ Len(inputs.line_items) = 2

(***************************************************************************)
(* Reason codes.                                                           *)
(***************************************************************************)
IsHit(rr) == rr.hit

\* The rule ids of the hits among the rule results rrs, in their order.
HitIdsInOrder(rrs) ==
    LET hits == SelectSeq(rrs, IsHit)
    IN [i \in 1..Len(hits) |-> hits[i].rule_id]

\* C24: in every result DecisionEngine.evaluate returns, reason_codes is the
\* list of the rule ids of the hit entries of rule_results, in the order of
\* rule_results: every hit is among the reason codes and every reason code
\* is a hit's.
C24_ReasonCodes ==
    Returned =>
        result.recommendation.reason_codes = HitIdsInOrder(result.rule_results)

\* A returned result with a miss between two deterministic hits and a hit of
\* the contract node after them: three reason codes for four rule results.
C24_Witness ==
    /\ pc = "done"
    /\ Len(result.rule_results) = 4
    /\ result.rule_results[1].hit /\ ~result.rule_results[2].hit
    /\ result.rule_results[3].hit
    /\ result.rule_results[4].rule_id = "NO_CONTRACT_REFERENCE"
    /\ Len(result.recommendation.reason_codes) = 3

(***************************************************************************)
(* APPROVE and hits.                                                       *)
(***************************************************************************)
\* C25: whenever the returned decision is APPROVE, no rule was hit: the
\* reason codes are empty, and no rule result, that of a contract check
\* (NO_CONTRACT_REFERENCE, CONTRACT_EXPIRED, CONTRACT_PRICE_VARIANCE)
\* included, is a hit.
C25_ApproveMeansNoHit ==
    (Returned /\ result.recommendation.decision = "APPROVE") =>
        /\ result.recommendation.reason_codes = <<>>
        /\ HitsOf(result) = {}

(***************************************************************************)
(* The run_id handed back to the caller.                                   *)
(***************************************************************************)
\* C26: the run_id a completed execution of execute_decision_run returns is
\* the run_id its audit events carry.
C26_ReturnedRunId ==
    \A k \in 1..Len(returned) :
        CompletedCall(k) => returned[k].run_id = RunIdOfCall(k)

(***************************************************************************)
(* Runs left open.                                                         *)
(***************************************************************************)
\* The run ids two executions can draw.
RunIds == 1..4

\* C27: every run that has written DECISION_RUN_STARTED eventually writes
\* DECISION_RUN_COMPLETED under the same run_id (the audit sink accepts
\* every write), whatever the policy and the case payload.
C27_RunCompletes ==
    \A r \in RunIds :
        (EventsOf(r, "DECISION_RUN_STARTED") # {}) ~> Completed(r)

(***************************************************************************)
(* The safety net only raises.                                             *)
(***************************************************************************)
\* C28: under a policy whose force_risk_level is HIGH or unset, the level
\* apply_threshold_safety_net returns is never lower than the base risk it
\* was given, in the order LOW < MEDIUM < HIGH < CRITICAL: a CRITICAL base
\* risk stays CRITICAL whatever the amount.
C28_SafetyNetOnlyRaises ==
    (RiskDerived /\ policy.config.force_risk_level \in {"", "HIGH"}) =>
        RiskRank(new_risk) >= RiskRank(base_risk)

(***************************************************************************)
(* Two runs for different cases.                                           *)
(***************************************************************************)
\* What a run of execute_decision_run on (pol, inp) for case cid does when
\* it runs alone: what evaluate returns, the risk level, and the audit
\* events in the order written (their run_id left out, as 0).
Alone(pol, inp, cid) ==
    LET call == EvaluateCall(pol, inp)
        res == call.result
        risk == RiskOf(pol, inp, res)
        E(ty) == [Event(ty) EXCEPT !.case_id = cid, !.run_id = 0]
    IN [raised |-> call.raised,
        result |-> res,
        risk |-> IF call.raised # "" THEN "" ELSE risk,
        events |->
           IF call.raised # "" THEN <<E("DECISION_RUN_STARTED")>>
           ELSE <<E("DECISION_RUN_STARTED"),
                  [E("RISK_LEVEL_DERIVED") EXCEPT
                      !.risk_level = risk, !.decision = res.recommendation.decision]>>
                \o [i \in 1..Len(res.rule_results) |->
                      [E("RULE_EVALUATED") EXCEPT
                          !.rule_id = res.rule_results[i].rule_id,
                          !.hit = res.rule_results[i].hit,
                          !.matched = res.rule_results[i].matched]]
                \o <<[E("DECISION_RECOMMENDED") EXCEPT
                         !.recommendation = res.recommendation],
                     [E("DECISION_RUN_COMPLETED") EXCEPT
                         !.decision = res.recommendation.decision,
                         !.risk_level = risk]>>]

\* The events of run rid in the audit table, in the order written, their
\* run_id left out.
EventsOfRun(rid) ==
    LET evs == SelectSeq(audit, LAMBDA e : e.run_id = rid)
    IN [i \in 1..Len(evs) |-> [evs[i] EXCEPT !.run_id = 0]]

\* The two concurrent runs.
BothRuns == {Running, parked}

\* C22: two runs for different cases, their steps interleaved in any way:
\* each run that has finished has returned the rule_results and the
\* recommendation, derived the risk level and written, under its run_id,
\* the sequence of audit events that it returns, derives and writes when
\* it runs alone.
C22_RunIndependence ==
    (parked.pc # "none" /\ parked.case_id # case_id) =>
        \A r \in BothRuns :
            r.pc \in {"done", "raised"} =>
                LET alone == Alone(policy, r.inputs, r.case_id)
                IN /\ (r.pc = "raised") <=> (alone.raised # "")
                   /\ r.pc = "done" =>
                         /\ r.result = alone.result
                         /\ r.new_risk = alone.risk
                   /\ EventsOfRun(r.run_id) = alone.events

\* Two runs for different cases have finished with different decisions, and
\* their events alternate in the audit table at its start and at its end.
C22_Witness ==
    /\ pc = "done" /\ parked.pc = "done"
    /\ parked.case_id # case_id
    /\ parked.result.recommendation.decision # result.recommendation.decision
    /\ audit[1].run_id # audit[2].run_id
    /\ audit[Len(audit)].run_id # audit[Len(audit) - 1].run_id

(***************************************************************************)
(* Two runs on the same case.                                              *)
(***************************************************************************)
\* Every execution has finished.
AllFinished ==
    /\ pc \in {"done", "raised"}
    /\ parked.pc \in {"none", "done", "raised"}

\* The positions of the DECISION_RUN_COMPLETED events of case c.
CompletedOf(c) ==
    {i \in 1..Len(audit) :
        audit[i].event_type = "DECISION_RUN_COMPLETED" /\ audit[i].case_id = c}

\* C29: once every execution has finished, however their steps were
\* interleaved, the saved record of a case that was evaluated has status
\* EVALUATED and carries, as last_decision and risk_level, the decision and
\* the risk_level of the latest DECISION_RUN_COMPLETED event of that case.
C29_PersistedIsLatest ==
    AllFinished =>
        \A c \in CaseIds :
            CompletedOf(c) # {} =>
                LET last == CHOOSE i \in CompletedOf(c) :
                                \A j \in CompletedOf(c) : j <= i
                IN /\ cases[c].status = "EVALUATED"
                   /\ cases[c].last_decision = audit[last].decision
                   /\ cases[c].risk_level = audit[last].risk_level

(***************************************************************************)
(* The decision status of a case.                                          *)
(***************************************************************************)
\* The positions of the events that set a status.
StatusSetters ==
    {i \in 1..Len(derived.events) :
        derived.events[i].event_type \in
            {"DECISION_RECOMMENDED", "DECISION_APPROVED", "DECISION_REJECTED",
             "DECISION_OVERRIDDEN"}}

\* The status the event of that type stands for.
StatusOf(event_type) ==
    CASE event_type = "DECISION_RECOMMENDED" -> "PENDING"
      [] event_type = "DECISION_APPROVED" -> "APPROVED"
      [] event_type = "DECISION_REJECTED" -> "REJECTED"
      [] event_type = "DECISION_OVERRIDDEN" -> "OVERRIDDEN"

\* The status of the last status-setting event, NO_DECISION without one.
LastStatus ==
    IF StatusSetters = {} THEN "NO_DECISION"
    ELSE StatusOf(derived.events[CHOOSE i \in StatusSetters :
                                    \A j \in StatusSetters : j <= i].event_type)

\* C30: what DecisionStatusService.derive returns for a sequence of audit
\* events: the status of the last event among DECISION_RECOMMENDED
\* (PENDING), DECISION_APPROVED, DECISION_REJECTED and DECISION_OVERRIDDEN,
\* NO_DECISION when there is none; and decided_at, decided_by and reason are
\* set only with the status APPROVED, REJECTED or OVERRIDDEN, never with
\* PENDING or NO_DECISION.
C30_StatusDerived ==
    pc = "derived" =>
        /\ derived.status = LastStatus
        /\ derived.status \in {"PENDING", "NO_DECISION"} =>
              /\ derived.decided_at = None
              /\ derived.decided_by = None
              /\ derived.reason = None

====
